---- MODULE Spec2Model ----
(***************************************************************************)
(* Model of the opsie bot core: the conversation orchestrator (AIAgent)    *)
(* and the request categorizer (RequestCategorizer).                       *)
(*                                                                         *)
(* Texts are TLA+ strings; characters are one-character strings obtained   *)
(* with SubSeq, so substring tests, lower-casing and the regular           *)
(* expressions of the category pattern table are computed on characters.   *)
(***************************************************************************)
EXTENDS Integers, Sequences, FiniteSets, TLC

(***************************************************************************)
(* Strings: str.lower(), str.strip(), `key in text`.                       *)
(***************************************************************************)
CharAt(s, i) == SubSeq(s, i, i)

\* the element of a one-element set.  The({e(x) : x \in {v}}) is e with x
\* naming the value of v, computed once, as a local variable of the code does
The(S) == CHOOSE x \in S : TRUE

UpperToLower ==
  [c \in {"A","B","C","D","E","F","G","H","I","J","K","L","M","N","O","P",
          "Q","R","S","T","U","V","W","X","Y","Z"} |->
     CASE c = "A" -> "a" [] c = "B" -> "b" [] c = "C" -> "c" [] c = "D" -> "d"
       [] c = "E" -> "e" [] c = "F" -> "f" [] c = "G" -> "g" [] c = "H" -> "h"
       [] c = "I" -> "i" [] c = "J" -> "j" [] c = "K" -> "k" [] c = "L" -> "l"
       [] c = "M" -> "m" [] c = "N" -> "n" [] c = "O" -> "o" [] c = "P" -> "p"
       [] c = "Q" -> "q" [] c = "R" -> "r" [] c = "S" -> "s" [] c = "T" -> "t"
       [] c = "U" -> "u" [] c = "V" -> "v" [] c = "W" -> "w" [] c = "X" -> "x"
       [] c = "Y" -> "y" [] c = "Z" -> "z"]

LowerChar(c) == IF c \in DOMAIN UpperToLower THEN UpperToLower[c] ELSE c

RECURSIVE LowerFrom(_, _)
LowerFrom(s, i) ==
  IF i > Len(s) THEN "" ELSE LowerChar(CharAt(s, i)) \o LowerFrom(s, i + 1)

\* str.lower()
Lower(s) == LowerFrom(s, 1)

WhiteSpace == {" ", "\n", "\t"}

RECURSIVE LStrip(_)
LStrip(s) ==
  IF Len(s) > 0 /\ CharAt(s, 1) \in WhiteSpace
  THEN LStrip(SubSeq(s, 2, Len(s))) ELSE s

RECURSIVE RStrip(_)
RStrip(s) ==
  IF Len(s) > 0 /\ CharAt(s, Len(s)) \in WhiteSpace
  THEN RStrip(SubSeq(s, 1, Len(s) - 1)) ELSE s

\* str.strip()
Strip(s) == RStrip(LStrip(s))

\* `key in text` on strings
Contains(text, key) ==
  \E i \in 1..(Len(text) - Len(key) + 1) : SubSeq(text, i, i + Len(key) - 1) = key

(***************************************************************************)
(* Regular expressions of CATEGORY_PATTERNS, with the semantics of         *)
(* Python's re: a pattern is a sequence of atoms; matching an atom at a    *)
(* position yields the end positions in backtracking priority order.       *)
(***************************************************************************)
WordChars ==
  {"a","b","c","d","e","f","g","h","i","j","k","l","m","n","o","p","q","r",
   "s","t","u","v","w","x","y","z","0","1","2","3","4","5","6","7","8","9","_"}
    \cup DOMAIN UpperToLower

\* \b at position i (between characters i-1 and i)
AtWordBoundary(s, i) ==
  LET before == i > 1 /\ CharAt(s, i - 1) \in WordChars
      after  == i <= Len(s) /\ CharAt(s, i) \in WordChars
  IN  before # after

WB == [t |-> "wb"]
DotStar == [t |-> "dotstar"]
WS1 == [t |-> "ws1"]
Lit(p) == [t |-> "lit", p |-> p]
Grp(ps) == [t |-> "alt", ps |-> ps]
OptChar(c) == [t |-> "opt", p |-> c]
Group(alts) == [t |-> "group", alts |-> alts]

\* positions i..j in descending order (greedy first)
RECURSIVE Descending(_, _)
Descending(j, i) == IF j < i THEN <<>> ELSE <<j>> \o Descending(j - 1, i)

\* first position >= i at which `.` does not match (newline or end of text)
RECURSIVE DotReach(_, _)
DotReach(s, i) ==
  IF i > Len(s) \/ CharAt(s, i) = "\n" THEN i ELSE DotReach(s, i + 1)

\* first position >= i that is not white space
RECURSIVE SpaceReach(_, _)
SpaceReach(s, i) ==
  IF i > Len(s) \/ CharAt(s, i) \notin WhiteSpace THEN i ELSE SpaceReach(s, i + 1)

LitEnds(p, s, i) ==
  IF i + Len(p) - 1 <= Len(s) /\ SubSeq(s, i, i + Len(p) - 1) = p
  THEN <<i + Len(p)>> ELSE <<>>

RECURSIVE AltEnds(_, _, _, _)
AltEnds(ps, k, s, i) ==
  IF k > Len(ps) THEN <<>> ELSE LitEnds(ps[k], s, i) \o AltEnds(ps, k + 1, s, i)

RECURSIVE AtomEnds(_, _, _)
RECURSIVE GroupEnds(_, _, _, _)
RECURSIVE SeqEnds(_, _, _, _)
RECURSIVE TryEnds(_, _, _, _, _)

AtomEnds(a, s, i) ==
  CASE a.t = "wb"      -> IF AtWordBoundary(s, i) THEN <<i>> ELSE <<>>
    [] a.t = "lit"     -> LitEnds(a.p, s, i)
    [] a.t = "alt"     -> AltEnds(a.ps, 1, s, i)
    [] a.t = "group"   -> GroupEnds(a.alts, 1, s, i)
    [] a.t = "dotstar" -> Descending(DotReach(s, i), i)
    [] a.t = "ws1"     -> Descending(SpaceReach(s, i), i + 1)
    [] a.t = "opt"     -> LitEnds(a.p, s, i) \o <<i>>

\* (alt1|alt2|...) whose alternatives are themselves atom sequences
GroupEnds(alts, k, s, i) ==
  IF k > Len(alts) THEN <<>>
  ELSE SeqEnds(alts[k], 1, s, i) \o GroupEnds(alts, k + 1, s, i)

\* end positions of atoms k.. of pattern pat matched at position i
SeqEnds(pat, k, s, i) ==
  IF k > Len(pat) THEN <<i>>
  ELSE TryEnds(pat, k, s, AtomEnds(pat[k], s, i), 1)

TryEnds(pat, k, s, ends, j) ==
  IF j > Len(ends) THEN <<>>
  ELSE SeqEnds(pat, k + 1, s, ends[j]) \o TryEnds(pat, k, s, ends, j + 1)

\* len(re.findall(pattern, s)): leftmost, non-overlapping matches from pos
RECURSIVE CountFrom(_, _, _)
CountFrom(pat, s, pos) ==
  IF pos > Len(s) + 1 THEN 0
  ELSE LET m == SeqEnds(pat, 1, s, pos)
       IN  IF m = <<>> THEN CountFrom(pat, s, pos + 1)
           ELSE 1 + CountFrom(pat, s, IF m[1] = pos THEN pos + 1 ELSE m[1])

FindAllCount(pat, s) == CountFrom(pat, s, 1)


(***************************************************************************)
(* RequestCategory and CATEGORY_PATTERNS.                                  *)
(***************************************************************************)
TECHNICAL_ISSUE == "technical_issue"
FYI == "fyi"
CUSTOMER_QUERY == "customer_query"
ENGINEERING_QUERY == "engineering_query"
FEATURE_REQUEST == "feature_request"
FEATURE_ENABLEMENT == "feature_enablement"
PR_REVIEW == "pr_review"
UNKNOWN == "unknown"

\* the enum, in declaration order
RequestCategory ==
  <<TECHNICAL_ISSUE, FYI, CUSTOMER_QUERY, ENGINEERING_QUERY, FEATURE_REQUEST,
    FEATURE_ENABLEMENT, PR_REVIEW, UNKNOWN>>

Categories == {RequestCategory[i] : i \in 1..Len(RequestCategory)}

\* \b(w1|w2|...)\b
Word(ps) == <<WB, Grp(ps), WB>>

\* \bw1\b.*\b(a|b|...)\b
Then(w, ps) == <<WB, Lit(w), WB, DotStar, WB, Grp(ps), WB>>

\* \bw1\s+w2\b
Two(w1, w2) == <<WB, Lit(w1), WS1, Lit(w2), WB>>

\* the keys of CATEGORY_PATTERNS, in insertion order
PatternCategories ==
  <<TECHNICAL_ISSUE, FYI, CUSTOMER_QUERY, ENGINEERING_QUERY, FEATURE_REQUEST,
    FEATURE_ENABLEMENT, PR_REVIEW>>

CATEGORY_PATTERNS ==
  [c \in {PatternCategories[i] : i \in 1..Len(PatternCategories)} |->
    CASE c = TECHNICAL_ISSUE -> <<
           Word(<<"error", "bug", "issue", "problem", "fail", "broken", "crash",
                  "not working">>),
           Word(<<"stack trace", "exception", "timeout", "500", "404", "502", "503">>),
           Word(<<"debug", "troubleshoot", "investigate">>),
           Word(<<"reproduce", "repro", "steps">>) >>
      [] c = FYI -> <<
           Word(<<"fyi">>),
           Word(<<"for your information">>),
           Word(<<"heads up">>),
           Then("jira", <<"ticket", "issue">>),
           Then("update", <<"on">>),
           Word(<<"just wanted to let you know">>) >>
      [] c = CUSTOMER_QUERY -> <<
           Then("customer", <<"ask", "question", "query", "request">>),
           Then("client", <<"ask", "question", "query", "request">>),
           Then("user", <<"ask", "question", "query", "request">>),
           <<WB, Lit("how"), WS1, Lit("do"), WS1, Lit("customer"), OptChar("s"), WB>>,
           <<WB, Lit("can"), WS1, Lit("customer"), OptChar("s"), WB>> >>
      [] c = ENGINEERING_QUERY -> <<
           Then("internal", <<"team", "query", "question">>),
           Then("engineering", <<"team", "query", "question">>),
           Word(<<"confluence">>),
           Word(<<"df-owned">>),
           Two("df", "owned"),
           Two("knowledge", "transfer"),
           <<WB, Lit("kt"), WS1, Lit("doc"), OptChar("s"), WB>> >>
      [] c = FEATURE_REQUEST -> <<
           Two("new", "feature"),
           Two("feature", "request"),
           <<WB, Lit("customer"), WB, DotStar, WB, Grp(<<"want", "need", "request">>), WB,
             DotStar, WB, Lit("feature"), WB>>,
           <<WB, Lit("can"), WS1, Lit("we"), WS1, Lit("add"), WB>>,
           <<WB, Lit("would"), WS1, Lit("it"), WS1, Lit("be"), WS1, Lit("possible"), WB>>,
           Word(<<"enhancement">>) >>
      [] c = FEATURE_ENABLEMENT -> <<
           Then("enable", <<"feature">>),
           <<WB, Lit("feature"), WB, DotStar, WB,
             Group(<< <<Lit("enable")>>, <<Lit("activation")>>,
                      <<Lit("turn"), WS1, Lit("on")>> >>), WB>>,
           <<WB, Lit("validate"), WB, DotStar, WB, Lit("feature"), WS1, Lit("support"), WB>>,
           Two("feature", "flag"),
           Then("toggle", <<"feature">>) >>
      [] c = PR_REVIEW -> <<
           Two("pr", "review"),
           <<WB, Lit("pull"), WS1, Lit("request"), WB, DotStar, WB, Lit("review"), WB>>,
           Two("code", "review"),
           Then("review", <<"pr">>),
           Word(<<"mobile-pr-reviews">>) >> ]

(***************************************************************************)
(* The texts the requests are drawn from.                                  *)
(***************************************************************************)
\* message texts of the orchestrator calls
Messages == {"error in prod", "fyi"}

\* thread-context texts of the orchestrator calls
ThreadTexts == {"error in prod"}

\* message texts of the categorizer calls
CatTexts ==
  {"hello there", "fyi", "error bug", "Error in prod, fyi", "pr review",
   "can customers see this", "fyi, jira ticket DF-123 was closed",
   "We are seeing a 500 error and stack trace, steps: click button twice"}

\* thread-context texts of the categorizer calls
CatThreadTexts == {"hello there", "fyi", "error bug", "crash, timeout, 502"}

\* message texts of the thread calls whose prompt is examined
PromptMessages == {"error in prod", " error in prod\n", "error bug"}

KnownTexts == Messages \cup ThreadTexts \cup CatTexts \cup CatThreadTexts \cup PromptMessages

\* len(re.findall(...)) of every pattern on one lower-cased text
MatchCounts(text_lower) ==
  [c \in DOMAIN CATEGORY_PATTERNS |->
     [n \in 1..Len(CATEGORY_PATTERNS[c]) |-> FindAllCount(CATEGORY_PATTERNS[c][n], text_lower)]]

\* the counts of the known texts, computed once
MatchCountsMemo == [t \in {Lower(x) : x \in KnownTexts} |-> MatchCounts(t)]

\* len(re.findall(CATEGORY_PATTERNS[category][n], text_lower, re.IGNORECASE))
PatternCount(category, n, text_lower) ==
  IF text_lower \in DOMAIN MatchCountsMemo THEN MatchCountsMemo[text_lower][category][n]
  ELSE FindAllCount(CATEGORY_PATTERNS[category][n], text_lower)

(***************************************************************************)
(* Stage A: RequestCategorizer._categorize_with_regex.                     *)
(* category_scores is a Python dict: an insertion-ordered sequence of      *)
(* [k, v] entries.  Scores are kept in half units (v = 2 * Python score),  *)
(* so a text match adds 2 and a thread-context match adds 1.               *)
(***************************************************************************)
\* TRUE; evaluating it computes the accumulator d before the loop goes on, as
\* Python does (TLC would otherwise keep it as a nest of unevaluated updates)
Evaluated(d) == Len(d) >= 0

DictHas(d, key) == \E j \in 1..Len(d) : d[j].k = key

DictGet(d, key, default) ==
  IF DictHas(d, key) THEN d[CHOOSE j \in 1..Len(d) : d[j].k = key].v ELSE default

DictSet(d, key, val) ==
  IF DictHas(d, key)
  THEN LET at == CHOOSE j \in 1..Len(d) : d[j].k = key
       IN  SubSeq(d, 1, at - 1) \o <<[k |-> key, v |-> val]>> \o SubSeq(d, at + 1, Len(d))
  ELSE Append(d, [k |-> key, v |-> val])

\* score of one category on the text: sum of len(re.findall(pattern, text_lower))
RECURSIVE TextScore(_, _, _)
TextScore(category, n, text_lower) ==
  IF n > Len(CATEGORY_PATTERNS[category]) THEN 0
  ELSE PatternCount(category, n, text_lower) + TextScore(category, n + 1, text_lower)

\* first loop: categories whose text score is positive enter the dict
RECURSIVE ScoreText(_, _, _)
ScoreText(d, c, text_lower) ==
  IF Evaluated(d) /\ c > Len(PatternCategories) THEN d
  ELSE LET category == PatternCategories[c]
           score == TextScore(category, 1, text_lower)
       IN  ScoreText(IF score > 0 THEN DictSet(d, category, 2 * score) ELSE d,
                     c + 1, text_lower)

\* ScoreMsgPatterns giving a thread-context match the weight of a text match
RECURSIVE ScoreMsgPatterns_FullWeight(_, _, _, _)
ScoreMsgPatterns_FullWeight(d, category, n, msg_text) ==
  IF Evaluated(d) /\ n > Len(CATEGORY_PATTERNS[category]) THEN d
  ELSE ScoreMsgPatterns_FullWeight(
         DictSet(d, category,
                 DictGet(d, category, 0) + 2 * PatternCount(category, n, msg_text)),
         category, n + 1, msg_text)

\* innermost thread loop: one dict update per pattern, also when matches = 0
RECURSIVE ScoreMsgPatterns(_, _, _, _)
ScoreMsgPatterns(d, category, n, msg_text) ==
  IF Evaluated(d) /\ n > Len(CATEGORY_PATTERNS[category]) THEN d
  ELSE ScoreMsgPatterns(
         DictSet(d, category, DictGet(d, category, 0) + PatternCount(category, n, msg_text)),
         category, n + 1, msg_text)

RECURSIVE ScoreMsg(_, _, _)
ScoreMsg(d, c, msg_text) ==
  IF Evaluated(d) /\ c > Len(PatternCategories) THEN d
  ELSE LET category == PatternCategories[c]
       IN  ScoreMsg(ScoreMsgPatterns(d, category, 1, msg_text),
                    c + 1, msg_text)

RECURSIVE ScoreThread(_, _, _)
ScoreThread(d, m, thread_context) ==
  IF Evaluated(d) /\ m > Len(thread_context) THEN d
  ELSE ScoreThread(ScoreMsg(d, 1, Lower(thread_context[m].text)), m + 1, thread_context)

\* the dict category_scores when the two loops have run
CategoryScores(text, thread_context) ==
  The({ScoreThread(category_scores, 1, thread_context) :
         category_scores \in {ScoreText(<<>>, 1, Lower(text))}})

\* MaxEntry taking the last of the entries with the largest value
RECURSIVE MaxEntry_LastWins(_, _, _)
MaxEntry_LastWins(d, j, best) ==
  IF j > Len(d) THEN best
  ELSE MaxEntry_LastWins(d, j + 1, IF d[j].v >= d[best].v THEN j ELSE best)

\* max(d.items(), key=lambda x: x[1]): the first entry with the largest value
RECURSIVE MaxEntry(_, _, _)
MaxEntry(d, j, best) ==
  IF j > Len(d) THEN best
  ELSE MaxEntry(d, j + 1, IF d[j].v > d[best].v THEN j ELSE best)

categorize_with_regex(text, thread_context) ==
  The({IF category_scores # <<>>
       THEN category_scores[MaxEntry(category_scores, 1, 1)].k
       ELSE UNKNOWN :
         category_scores \in {CategoryScores(text, thread_context)}})

\* RequestCategorizer.categorize_request: the regex-only wrapper
categorize_request(text, thread_context) == categorize_with_regex(text, thread_context)

(***************************************************************************)
(* json.loads on the replies of the classification model: objects, arrays, *)
(* strings without escape sequences, unsigned integers, true/false/null.   *)
(* A parse yields [ok, pos, val]; ok = FALSE stands for JSONDecodeError.   *)
(***************************************************************************)
Digits == {"0","1","2","3","4","5","6","7","8","9"}

JsonFail == [ok |-> FALSE, pos |-> 0, val |-> [type |-> "none"]]

RECURSIVE SkipWs(_, _)
SkipWs(s, i) == IF i <= Len(s) /\ CharAt(s, i) \in WhiteSpace THEN SkipWs(s, i + 1) ELSE i

\* index of the first character c at or after i, 0 when there is none
RECURSIVE IndexOf(_, _, _)
IndexOf(s, c, i) ==
  IF i > Len(s) THEN 0 ELSE IF CharAt(s, i) = c THEN i ELSE IndexOf(s, c, i + 1)

RECURSIVE DigitsEnd(_, _)
DigitsEnd(s, i) == IF i <= Len(s) /\ CharAt(s, i) \in Digits THEN DigitsEnd(s, i + 1) ELSE i

StartsWith(s, i, w) == i + Len(w) - 1 <= Len(s) /\ SubSeq(s, i, i + Len(w) - 1) = w

\* a string literal whose opening quote is at i
JsonString(s, i) ==
  LET close == IndexOf(s, "\"", i + 1)
  IN  IF close = 0 \/ Contains(SubSeq(s, i + 1, close - 1), "\\") THEN JsonFail
      ELSE [ok |-> TRUE, pos |-> close + 1,
            val |-> [type |-> "str", s |-> SubSeq(s, i + 1, close - 1)]]

RECURSIVE JsonValue(_, _)
RECURSIVE JsonMembers(_, _, _)
RECURSIVE JsonElements(_, _)

\* the members of an object after `{` or `,`; items collects the [k, v] pairs
JsonMembers(s, i0, items) ==
  LET i == SkipWs(s, i0)
  IN  IF i > Len(s) \/ CharAt(s, i) # "\"" THEN JsonFail
      ELSE LET key == JsonString(s, i)
               colon == IF key.ok THEN SkipWs(s, key.pos) ELSE 0
           IN  IF ~key.ok \/ colon > Len(s) \/ CharAt(s, colon) # ":" THEN JsonFail
               ELSE LET v == JsonValue(s, colon + 1)
                        nxt == IF v.ok THEN SkipWs(s, v.pos) ELSE 0
                        items2 == Append(items, [k |-> key.val.s, v |-> v.val])
                    IN  IF ~v.ok \/ nxt > Len(s) THEN JsonFail
                        ELSE IF CharAt(s, nxt) = "}"
                             THEN [ok |-> TRUE, pos |-> nxt + 1,
                                   val |-> [type |-> "dict", items |-> items2]]
                        ELSE IF CharAt(s, nxt) = ","
                             THEN JsonMembers(s, nxt + 1, items2)
                        ELSE JsonFail

\* the elements of an array after `[` or `,`
JsonElements(s, i0) ==
  LET v == JsonValue(s, i0)
      nxt == IF v.ok THEN SkipWs(s, v.pos) ELSE 0
  IN  IF ~v.ok \/ nxt > Len(s) THEN JsonFail
      ELSE IF CharAt(s, nxt) = "]"
           THEN [ok |-> TRUE, pos |-> nxt + 1, val |-> [type |-> "list"]]
      ELSE IF CharAt(s, nxt) = "," THEN JsonElements(s, nxt + 1)
      ELSE JsonFail

JsonValue(s, i0) ==
  LET i == SkipWs(s, i0)
      c == IF i <= Len(s) THEN CharAt(s, i) ELSE ""
  IN  CASE c = "\"" -> JsonString(s, i)
        [] c = "{" ->
             LET j == SkipWs(s, i + 1)
             IN  IF j <= Len(s) /\ CharAt(s, j) = "}"
                 THEN [ok |-> TRUE, pos |-> j + 1, val |-> [type |-> "dict", items |-> <<>>]]
                 ELSE JsonMembers(s, i + 1, <<>>)
        [] c = "[" ->
             LET j == SkipWs(s, i + 1)
             IN  IF j <= Len(s) /\ CharAt(s, j) = "]"
                 THEN [ok |-> TRUE, pos |-> j + 1, val |-> [type |-> "list"]]
                 ELSE JsonElements(s, i + 1)
        [] c \in Digits ->
             [ok |-> TRUE, pos |-> DigitsEnd(s, i), val |-> [type |-> "int"]]
        [] c = "n" /\ StartsWith(s, i, "null") ->
             [ok |-> TRUE, pos |-> i + 4, val |-> [type |-> "null"]]
        [] c = "t" /\ StartsWith(s, i, "true") ->
             [ok |-> TRUE, pos |-> i + 4, val |-> [type |-> "bool"]]
        [] c = "f" /\ StartsWith(s, i, "false") ->
             [ok |-> TRUE, pos |-> i + 5, val |-> [type |-> "bool"]]
        [] OTHER -> JsonFail

\* json.loads(s): the whole string must be one value
JsonLoads(s) ==
  LET v == JsonValue(s, 1)
  IN  IF v.ok /\ SkipWs(s, v.pos) = Len(s) + 1 THEN v ELSE JsonFail

(***************************************************************************)
(* Stage B: RequestCategorizer._categorize_with_llm_async, and the         *)
(* reconciliation of categorize_request_async.                             *)
(*                                                                         *)
(* A call either returns a value or raises: [raised, val].  The outcome of *)
(* ai_model.generate_response is a record reply:                           *)
(*   [kind |-> "ok", content |-> text]     a response with that content    *)
(*   [kind |-> "no_content"]               a response whose content is None*)
(*   [kind |-> "raise", exc |-> class]     the call raises                 *)
(***************************************************************************)
None == "None"

\* a backend object is [cls, provider, id]; NoModel stands for current_model = None
NoModel == [cls |-> None, provider |-> None, id |-> 0]

Returned(v) == [raised |-> FALSE, val |-> v]
Raised(e) == [raised |-> TRUE, val |-> e]

\* the exception classes a backend call raises; all derive from Exception
ExceptionClasses == {"ConnectionError", "TimeoutError", "ValueError", "RuntimeError"}

\* what `except Exception` catches
CaughtByExceptException(e) == e \in ExceptionClasses \cup {"AttributeError", "JSONDecodeError"}

\* category_mapping of categorize_with_llm_async, in insertion order
category_mapping ==
  << [k |-> "technical_issue", v |-> TECHNICAL_ISSUE],
     [k |-> "technical issue", v |-> TECHNICAL_ISSUE],
     [k |-> "fyi", v |-> FYI],
     [k |-> "customer_query", v |-> CUSTOMER_QUERY],
     [k |-> "customer query", v |-> CUSTOMER_QUERY],
     [k |-> "engineering_query", v |-> ENGINEERING_QUERY],
     [k |-> "engineering query", v |-> ENGINEERING_QUERY],
     [k |-> "feature_request", v |-> FEATURE_REQUEST],
     [k |-> "feature request", v |-> FEATURE_REQUEST],
     [k |-> "feature_enablement", v |-> FEATURE_ENABLEMENT],
     [k |-> "feature enablement", v |-> FEATURE_ENABLEMENT],
     [k |-> "pr_review", v |-> PR_REVIEW],
     [k |-> "pr review", v |-> PR_REVIEW],
     [k |-> "unknown", v |-> UNKNOWN] >>

\* FirstKeyIn testing `category_text in key`
RECURSIVE FirstKeyIn_Swapped(_, _)
FirstKeyIn_Swapped(category_text, j) ==
  IF j > Len(category_mapping) THEN 0
  ELSE IF Contains(category_mapping[j].k, category_text) THEN j
  ELSE FirstKeyIn_Swapped(category_text, j + 1)

\* for key, category in category_mapping.items(): if key in category_text
RECURSIVE FirstKeyIn(_, _)
FirstKeyIn(category_text, j) ==
  IF j > Len(category_mapping) THEN 0
  ELSE IF Contains(category_text, category_mapping[j].k) THEN j
  ELSE FirstKeyIn(category_text, j + 1)

\* dict.get on a parsed JSON object: the last member with that key
RECURSIVE LastMember(_, _, _)
LastMember(items, key, j) ==
  IF j = 0 THEN 0 ELSE IF items[j].k = key THEN j ELSE LastMember(items, key, j - 1)

\* the JSON branch: json.loads, parsed.get("category", "").lower(), mapping.get
CategoryFromJson(category_text) ==
  The({IF ~parsed.ok THEN Returned(UNKNOWN)
       ELSE IF parsed.val.type # "dict" THEN Raised("AttributeError")
       ELSE LET at == LastMember(parsed.val.items, "category", Len(parsed.val.items))
            IN  IF at = 0 THEN Returned(DictGet(category_mapping, "", UNKNOWN))
                ELSE IF parsed.val.items[at].v.type # "str" THEN Raised("AttributeError")
                ELSE Returned(DictGet(category_mapping,
                                      Lower(parsed.val.items[at].v.s), UNKNOWN)) :
         parsed \in {JsonLoads(category_text)}})

\* the body of the try block: the generate call and the parsing of its reply
ParseReply(reply) ==
  CASE reply.kind = "raise" -> Raised(reply.exc)
    [] reply.kind = "no_content" -> Raised("AttributeError")
    [] reply.kind = "ok" ->
         The({LET hit == FirstKeyIn(category_text, 1)
              IN  IF hit # 0 THEN Returned(category_mapping[hit].v)
                  ELSE IF Contains(category_text, "{") /\ Contains(category_text, "}")
                       THEN CategoryFromJson(category_text)
                  ELSE Returned(UNKNOWN) :
                category_text \in {Lower(Strip(reply.content))}})

categorize_with_llm_async(ai_model, reply) ==
  IF ai_model = NoModel THEN Returned(UNKNOWN)
  ELSE The({IF r.raised /\ CaughtByExceptException(r.val) THEN Returned(UNKNOWN) ELSE r :
              r \in {ParseReply(reply)}})

\* Reconcile keeping the regex category when the two stages disagree
Reconcile_RegexWins(regex_category, llm) ==
  IF llm.raised
  THEN IF CaughtByExceptException(llm.val) THEN Returned(regex_category) ELSE llm
  ELSE IF llm.val # UNKNOWN /\ regex_category \in {UNKNOWN, llm.val} THEN Returned(llm.val)
  ELSE Returned(regex_category)

\* categorize_request_async from the return of Stage B on
Reconcile(regex_category, llm) ==
  IF llm.raised
  THEN IF CaughtByExceptException(llm.val) THEN Returned(regex_category) ELSE llm
  ELSE IF llm.val # UNKNOWN THEN Returned(llm.val)
  ELSE Returned(regex_category)

categorize_request_async(text, thread_context, ai_model, reply) ==
  The({IF ai_model # NoModel
       THEN The({Reconcile(regex_category, llm) :
                   llm \in {categorize_with_llm_async(ai_model, reply)}})
       ELSE Returned(regex_category) :
         regex_category \in {categorize_with_regex(text, thread_context)}})

(***************************************************************************)
(* Model backends: ModelFactory._providers, Config.get_model_config and    *)
(* the provider property of each backend class.                            *)
(***************************************************************************)
\* ModelFactory._providers as the class body sets it
\* (a dict: a sequence of [k, v] entries in insertion order)
InitialProviders ==
  <<[k |-> "openai", v |-> "OpenAIModel"],
    [k |-> "anthropic", v |-> "AnthropicModel"],
    [k |-> "huggingface", v |-> "LocalHuggingFaceModel"],
    [k |-> "gemini", v |-> "GeminiModel"]>>

\* the provider property of the backend classes
ClassProvider(cls) ==
  CASE cls = "OpenAIModel" -> "openai"
    [] cls = "AnthropicModel" -> "anthropic"
    [] cls = "LocalHuggingFaceModel" -> "local"
    [] cls = "GeminiModel" -> "gemini"
    [] cls = "MockAIProvider" -> "mock"

\* the classes that inherit from AIModelInterface: the built-in backends and
\* MockAIProvider of examples/custom_provider.py
BackendClasses ==
  {"OpenAIModel", "AnthropicModel", "LocalHuggingFaceModel", "GeminiModel", "MockAIProvider"}

\* an exception object
Exc(cls, msg) == [cls |-> cls, msg |-> msg]

\* list(d.keys())
Keys(d) == [j \in 1..Len(d) |-> d[j].k]

\* str() of a list of strings
RECURSIVE ListItems(_, _)
ListItems(lst, j) ==
  IF j > Len(lst) THEN ""
  ELSE (IF j > 1 THEN ", " ELSE "") \o "'" \o lst[j] \o "'" \o ListItems(lst, j + 1)

ListRepr(lst) == "[" \o ListItems(lst, 1) \o "]"

\* ModelFactory.create_model: the new backend object, or the error raised.
\* constructs tells whether the backend class's constructor succeeds.
create_model_BuiltInList(registry, provider, constructs, id) ==
  IF ~DictHas(registry, provider)
  THEN Raised(Exc("ValueError", "Unknown provider: " \o provider
                                \o ". Available providers: "
                                \o "['openai', 'anthropic', 'huggingface', 'gemini']"))
  ELSE IF ~constructs THEN Raised(Exc("ValueError", "Gemini API key is required"))
  ELSE Returned([cls |-> DictGet(registry, provider, None),
                 provider |-> ClassProvider(DictGet(registry, provider, None)), id |-> id])

create_model(registry, provider, constructs, id) ==
  IF ~DictHas(registry, provider)
  THEN Raised(Exc("ValueError", "Unknown provider: " \o provider
                                \o ". Available providers: " \o ListRepr(Keys(registry))))
  ELSE IF ~constructs THEN Raised(Exc("ValueError", "Gemini API key is required"))
  ELSE Returned([cls |-> DictGet(registry, provider, None),
                 provider |-> ClassProvider(DictGet(registry, provider, None)), id |-> id])

\* ModelFactory.get_available_providers
get_available_providers(registry) == Keys(registry)

\* ModelFactory.register_provider: the registry afterwards, or the error raised
register_provider_KeepsFirst(registry, name, model_class) ==
  IF model_class \notin BackendClasses
  THEN Raised(Exc("ValueError", "Model class must inherit from AIModelInterface"))
  ELSE Returned(IF DictHas(registry, name) THEN registry
                ELSE DictSet(registry, name, model_class))

register_provider(registry, name, model_class) ==
  IF model_class \notin BackendClasses
  THEN Raised(Exc("ValueError", "Model class must inherit from AIModelInterface"))
  ELSE Returned(DictSet(registry, name, model_class))

\* the model_name property of a backend built from the default configuration
ModelName(cls) ==
  CASE cls = "OpenAIModel" -> "gpt-4"
    [] cls = "AnthropicModel" -> "claude-3-sonnet-20240229"
    [] cls = "LocalHuggingFaceModel" -> "DialoGPT-medium"
    [] cls = "GeminiModel" -> "gemini-pro"
    [] cls = "MockAIProvider" -> "mock-gpt-4"

\* AIAgent.get_current_model_info
get_current_model_info(model) ==
  IF model = NoModel THEN [provider |-> "none", model |-> "none"]
  ELSE [provider |-> model.provider, model |-> ModelName(model.cls)]

\* the provider names Config.get_model_config has a branch for
ConfiguredProviders == {"openai", "anthropic", "gemini", "google", "local", "huggingface"}

\* Config.default_ai_provider
DefaultProvider == "openai"

\* AIAgent._switch_model: the new backend, or the error it re-raises.
\* constructs tells whether the backend class's constructor succeeds.
switch_model(registry, provider, constructs, id) ==
  IF provider \notin ConfiguredProviders THEN Raised("ValueError")
  ELSE LET model == create_model(registry, provider, constructs, id)
       IN  IF model.raised THEN Raised(model.val.cls) ELSE model

(***************************************************************************)
(* Conversation history: AIAgent.conversation_history, a dict from user id *)
(* to a list of messages.                                                  *)
(***************************************************************************)
HistoryLimit == 10

\* metadata = None
NoMetadata == [user_id |-> None, timestamp |-> 0]

AIMessage(role, content, metadata) ==
  [role |-> role, content |-> content, metadata |-> metadata]

\* lst[-10:] when len(lst) > 10
KeepLast(lst) ==
  IF Len(lst) > HistoryLimit THEN SubSeq(lst, Len(lst) - HistoryLimit + 1, Len(lst)) ELSE lst

\* self.conversation_history[user_id] = lst
SetHistory_Shared(hist, user_id, lst) ==
  [u \in DOMAIN hist \cup {user_id} |-> lst]

SetHistory(hist, user_id, lst) ==
  [u \in DOMAIN hist \cup {user_id} |-> IF u = user_id THEN lst ELSE hist[u]]

\* process_message up to the model call: create the list if absent, append
\* the user message, keep the last 10
AddUserMessage(hist, user_id, message) ==
  LET lst == IF user_id \in DOMAIN hist THEN hist[user_id] ELSE <<>>
  IN  SetHistory(hist, user_id, KeepLast(Append(lst, AIMessage("user", message, NoMetadata))))

\* process_message after a successful model call: append the assistant message
AddAssistantMessage(hist, user_id, content) ==
  SetHistory(hist, user_id, Append(hist[user_id], AIMessage("assistant", content, NoMetadata)))

\* _process_technical_thread_message after a successful model call: create the
\* list if absent, extend it by the (user, assistant) pair, keep the last 10
ExtendWithPair_TruncatesFirst(hist, user_id, message, content) ==
  LET lst == IF user_id \in DOMAIN hist THEN hist[user_id] ELSE <<>>
  IN  SetHistory(hist, user_id,
                 KeepLast(lst) \o <<AIMessage("user", message, NoMetadata), AIMessage("assistant", content, NoMetadata)>>)

ExtendWithPair(hist, user_id, message, content) ==
  LET lst == IF user_id \in DOMAIN hist THEN hist[user_id] ELSE <<>>
  IN  SetHistory(hist, user_id,
                 KeepLast(lst \o <<AIMessage("user", message, NoMetadata), AIMessage("assistant", content, NoMetadata)>>))

\* ThreadHistory recording the user message before the model call
ThreadHistory_KeepsUser(hist, user_id, message, outcome) ==
  IF outcome.kind = "ok" THEN ExtendWithPair(hist, user_id, message, outcome.content)
  ELSE AddUserMessage(hist, user_id, message)

\* the history after the try block of _process_technical_thread_message
ThreadHistory(hist, user_id, message, outcome) ==
  IF outcome.kind = "ok" THEN ExtendWithPair(hist, user_id, message, outcome.content)
  ELSE hist

\* clear_conversation emptying the list instead of deleting the key
clear_conversation_Empties(hist, user_id) ==
  IF user_id \in DOMAIN hist THEN SetHistory(hist, user_id, <<>>) ELSE hist

\* AIAgent.clear_conversation
clear_conversation(hist, user_id) ==
  IF user_id \in DOMAIN hist THEN [u \in DOMAIN hist \ {user_id} |-> hist[u]] ELSE hist

\* the fixed strings returned when the model call fails
ProcessApology == "Sorry, I encountered an error while processing your message. Please try again."
ThreadApology == "Sorry, I encountered an error while processing your message. Please try again."

(***************************************************************************)
(* Routing / response dispatch: ROUTING_INFO, get_routing_info and         *)
(* generate_response.  The pictographs that open the headings of the       *)
(* rendered texts, the bullet glyphs (written "-") and the quote marks     *)
(* around #mobile-pr-reviews are not representable here and are left out;  *)
(* every other character is kept.                                          *)
(***************************************************************************)
LowerToUpper ==
  [c \in {LowerChar(u) : u \in DOMAIN UpperToLower} |->
     CHOOSE u \in DOMAIN UpperToLower : UpperToLower[u] = c]

Letters == DOMAIN UpperToLower \cup DOMAIN LowerToUpper

RECURSIVE ReplaceFrom(_, _, _, _)
ReplaceFrom(s, a, b, i) ==
  IF i > Len(s) THEN ""
  ELSE (IF CharAt(s, i) = a THEN b ELSE CharAt(s, i)) \o ReplaceFrom(s, a, b, i + 1)

\* str.replace(a, b) for a one-character a
Replace(s, a, b) == ReplaceFrom(s, a, b, 1)

RECURSIVE TitleFrom(_, _)
TitleFrom(s, i) ==
  IF i > Len(s) THEN ""
  ELSE LET c == CharAt(s, i)
           first == i = 1 \/ CharAt(s, i - 1) \notin Letters
       IN  (IF first /\ c \in DOMAIN LowerToUpper THEN LowerToUpper[c]
            ELSE IF ~first THEN LowerChar(c) ELSE c) \o TitleFrom(s, i + 1)

\* str.title()
Title(s) == TitleFrom(s, 1)

ROUTING_INFO ==
  [c \in {PatternCategories[i] : i \in 1..Len(PatternCategories)} |->
    CASE c = TECHNICAL_ISSUE ->
           [action |-> "validate_and_triage", route_to |-> "ops_debugging",
            priority |-> "high",
            required_info |-> <<"Problem description", "Steps to reproduce",
                                "Expected vs actual behavior", "Environment details",
                                "Error messages/logs">>]
      [] c = FYI ->
           [action |-> "acknowledge", route_to |-> "ops_team", priority |-> "low",
            required_info |-> <<>>]
      [] c = CUSTOMER_QUERY ->
           [action |-> "route_to_product", route_to |-> "df_product", priority |-> "medium",
            required_info |-> <<"Customer context", "Specific query details">>]
      [] c = ENGINEERING_QUERY ->
           [action |-> "respond_directly", route_to |-> "df_ops", priority |-> "medium",
            required_info |-> <<"Technical context", "Component details">>]
      [] c = FEATURE_REQUEST ->
           [action |-> "verify_and_route", route_to |-> "df_product", priority |-> "medium",
            required_info |-> <<"Customer demand details", "Feature description">>]
      [] c = FEATURE_ENABLEMENT ->
           [action |-> "verify_and_route", route_to |-> "df_product", priority |-> "medium",
            required_info |-> <<"Feature details", "Support validation">>]
      [] c = PR_REVIEW ->
           [action |-> "redirect", route_to |-> "mobile_pr_reviews", priority |-> "low",
            required_info |-> <<>>] ]

get_routing_info_PartialDefault(category) ==
  IF category \in DOMAIN ROUTING_INFO THEN ROUTING_INFO[category]
  ELSE [action |-> "acknowledge", route_to |-> "ops_team", priority |-> "normal"]

get_routing_info(category) ==
  IF category \in DOMAIN ROUTING_INFO THEN ROUTING_INFO[category]
  ELSE [action |-> "acknowledge", route_to |-> "ops_team", priority |-> "medium",
        required_info |-> <<>>]

\* the missing-information checklist of generate_technical_issue_response
MissingInfo_StepsKeyword(text) ==
  LET text_lower == Lower(text)
  IN  (IF ~Contains(text_lower, "reproduce") /\ ~Contains(text_lower, "repro")
          /\ ~Contains(text_lower, "steps")
       THEN <<"Steps to reproduce">> ELSE <<>>)
      \o (IF ~Contains(text_lower, "error") /\ ~Contains(text_lower, "exception")
          THEN <<"Error messages/logs">> ELSE <<>>)
      \o (IF ~Contains(text_lower, "environment") /\ ~Contains(text_lower, "version")
          THEN <<"Environment details">> ELSE <<>>)

MissingInfo(text) ==
  LET text_lower == Lower(text)
  IN  (IF ~Contains(text_lower, "reproduce") /\ ~Contains(text_lower, "repro")
       THEN <<"Steps to reproduce">> ELSE <<>>)
      \o (IF ~Contains(text_lower, "error") /\ ~Contains(text_lower, "exception")
          THEN <<"Error messages/logs">> ELSE <<>>)
      \o (IF ~Contains(text_lower, "environment") /\ ~Contains(text_lower, "version")
          THEN <<"Environment details">> ELSE <<>>)

RECURSIVE Bullets(_, _)
Bullets(items, j) ==
  IF j > Len(items) THEN "" ELSE "- " \o items[j] \o "\n" \o Bullets(items, j + 1)

PriorityLine(routing_info) == "**Priority:** " \o Title(routing_info.priority) \o "\n"
RoutingLine(routing_info) == "**Routing:** " \o Title(Replace(routing_info.route_to, "_", " "))

generate_technical_issue_response_AlwaysSection(routing_info, text) ==
  LET missing_info == MissingInfo(text)
  IN  "**Technical Issue Detected**\n\n"
      \o "I'm triaging this technical issue and will validate the debugging information.\n\n"
      \o "**Missing Information:**\n" \o Bullets(missing_info, 1)
      \o "\nPlease provide the missing details for proper debugging. "
      \o "The complete debugging format is available in the channel description.\n\n"
      \o PriorityLine(routing_info) \o RoutingLine(routing_info) \o "\n"
      \o "**Action:** " \o Title(Replace(routing_info.action, "_", " "))

generate_technical_issue_response(routing_info, text) ==
  LET missing_info == MissingInfo(text)
  IN  "**Technical Issue Detected**\n\n"
      \o "I'm triaging this technical issue and will validate the debugging information.\n\n"
      \o (IF missing_info # <<>>
          THEN "**Missing Information:**\n" \o Bullets(missing_info, 1)
               \o "\nPlease provide the missing details for proper debugging. "
               \o "The complete debugging format is available in the channel description.\n\n"
          ELSE "")
      \o PriorityLine(routing_info) \o RoutingLine(routing_info) \o "\n"
      \o "**Action:** " \o Title(Replace(routing_info.action, "_", " "))

generate_fyi_response(routing_info, text) ==
  "**FYI Acknowledged**\n\n"
  \o "Thank you for the update. I've noted this information.\n\n"
  \o (IF Contains(Lower(text), "jira")
      THEN "I see this relates to a Jira ticket. I'll track any follow-up actions needed.\n\n"
      ELSE "")
  \o PriorityLine(routing_info) \o RoutingLine(routing_info)

generate_customer_query_response(routing_info, text) ==
  "**Customer Query Detected**\n\n"
  \o "This appears to be a customer-related query that needs Product team review.\n\n"
  \o "**Next Steps:**\n"
  \o "- Routing to DF Product team for review\n"
  \o "- Product team will provide the final customer response\n"
  \o "- I'll ensure proper context is maintained\n\n"
  \o PriorityLine(routing_info) \o RoutingLine(routing_info)

generate_engineering_query_response(routing_info, text) ==
  "**Engineering Query**\n\n"
  \o "I'll handle this internal engineering query directly.\n\n"
  \o (IF Contains(Lower(text), "confluence")
      THEN "I'll check our Confluence documentation for relevant context.\n" ELSE "")
  \o (IF Contains(Lower(text), "df-owned") \/ Contains(Lower(text), "df owned")
      THEN "This relates to DF-owned components. I'll provide technical guidance.\n\n"
      ELSE "")
  \o PriorityLine(routing_info) \o RoutingLine(routing_info)

generate_feature_request_response(routing_info, text) ==
  "**New Feature Request**\n\n"
  \o "I've identified this as a new feature request from customer demand.\n\n"
  \o "**Next Steps:**\n"
  \o "- Verifying feature availability in current roadmap\n"
  \o "- Routing to DF Product team for evaluation\n"
  \o "- Will provide feasibility assessment\n\n"
  \o PriorityLine(routing_info) \o RoutingLine(routing_info)

generate_feature_enablement_response(routing_info, text) ==
  "**Feature Enablement Request**\n\n"
  \o "I'll validate feature support and coordinate enablement.\n\n"
  \o "**Next Steps:**\n"
  \o "- Validating feature support for the environment\n"
  \o "- Coordinating with DF Product for enablement\n"
  \o "- Will provide enablement timeline\n\n"
  \o PriorityLine(routing_info) \o RoutingLine(routing_info)

generate_pr_review_response(routing_info, text) ==
  "**PR Review Request**\n\n"
  \o "Code review requests should be posted in the dedicated review channel.\n\n"
  \o "**Please redirect to:** #mobile-pr-reviews\n\n"
  \o "This ensures your PR gets proper visibility and timely review from the team.\n\n"
  \o PriorityLine(routing_info) \o RoutingLine(routing_info)

generate_unknown_response(text) ==
  "**Request Classification**\n\n"
  \o "I'm analyzing your request to determine the best routing and action.\n\n"
  \o "If this is:\n"
  \o "- **Technical Issue** - Please provide debugging details\n"
  \o "- **Customer Query** - I'll route to Product team\n"
  \o "- **Feature Request** - I'll coordinate with Product\n"
  \o "- **Engineering Query** - I can help directly\n\n"
  \o "Please clarify the type of request if needed."

generate_response(category, text, thread_context) ==
  LET routing_info == get_routing_info(category)
  IN  CASE category = TECHNICAL_ISSUE -> generate_technical_issue_response(routing_info, text)
        [] category = FYI -> generate_fyi_response(routing_info, text)
        [] category = CUSTOMER_QUERY -> generate_customer_query_response(routing_info, text)
        [] category = ENGINEERING_QUERY -> generate_engineering_query_response(routing_info, text)
        [] category = FEATURE_REQUEST -> generate_feature_request_response(routing_info, text)
        [] category = FEATURE_ENABLEMENT -> generate_feature_enablement_response(routing_info, text)
        [] category = PR_REVIEW -> generate_pr_review_response(routing_info, text)
        [] OTHER -> generate_unknown_response(text)

\* the category/action footer _process_technical_thread_message appends
CategoryFooter(category) ==
  "\n\n---\n**Category:** " \o Title(Replace(category, "_", " "))
  \o "\n**Action:** " \o Title(Replace(get_routing_info(category).action, "_", " "))

\* prompt_loader.load_prompt(name) or the hardcoded fallback: an opaque text
SystemPrompt(category) ==
  IF category = TECHNICAL_ISSUE THEN "software_engineer_triage" ELSE "engineering_support"

RECURSIVE ContextMessages(_, _)
ContextMessages(thread_context, j) ==
  IF j > Len(thread_context) THEN <<>>
  ELSE <<AIMessage("user", thread_context[j].text,
                   [user_id |-> thread_context[j].user_id,
                    timestamp |-> thread_context[j].timestamp])>>
       \o ContextMessages(thread_context, j + 1)

\* thread_messages of _process_technical_thread_message
ThreadMessages_AlwaysAppends(category, user_id, message, thread_context) ==
  <<AIMessage("system", SystemPrompt(category), NoMetadata)>>
  \o ContextMessages(thread_context, 1)
  \o <<AIMessage("user", Strip(message), NoMetadata)>>

ThreadMessages(category, user_id, message, thread_context) ==
  LET current_msg_text == Strip(message)
  IN  <<AIMessage("system", SystemPrompt(category), NoMetadata)>>
      \o ContextMessages(thread_context, 1)
      \o (IF thread_context = <<>> \/ thread_context[Len(thread_context)].text # current_msg_text
          THEN <<AIMessage("user", current_msg_text, NoMetadata)>> ELSE <<>>)

(***************************************************************************)
(* Bounds and inputs.                                                      *)
(***************************************************************************)
\* process / process_thread calls started in one behaviour
MaxCalls == 2

\* entries of a thread context handed to the categorizer
MaxThread == 2

Users == {"U1", "U2"}

\* the two call slots; the sequential specification uses the first only
Reqs == {1, 2}

Entry(user_id, text, timestamp) == [user_id |-> user_id, text |-> text, timestamp |-> timestamp]

\* thread contexts of the orchestrator calls
ThreadContexts == {<<>>} \cup {<<Entry("U2", t, 1)>> : t \in ThreadTexts}

\* the provider argument of a call, with whether the backend's constructor succeeds
ProviderArgs ==
  {[provider |-> None, constructs |-> TRUE], [provider |-> "gemini", constructs |-> TRUE],
   [provider |-> "gemini", constructs |-> FALSE],
   [provider |-> "nonexistent", constructs |-> TRUE]}

\* outcomes of generate_response on the chat paths
GenerateOutcomes ==
  {[kind |-> "ok", content |-> "Test response"], [kind |-> "raise", exc |-> "ConnectionError"]}

\* outcomes of generate_response on the classification call of process_thread
ClassifyOutcomes ==
  {[kind |-> "ok", content |-> "technical_issue"], [kind |-> "ok", content |-> "FYI"],
   [kind |-> "ok", content |-> ""], [kind |-> "raise", exc |-> "TimeoutError"]}

(***************************************************************************)
(* State.                                                                  *)
(***************************************************************************)
VARIABLES
  conversation_history,  \* AIAgent.conversation_history
  current_model,         \* AIAgent.current_model
  providers,             \* ModelFactory._providers
  created,               \* number of backend objects constructed so far
  calls,                 \* per call slot: the coroutine of process_message /
                         \* process_thread_message, suspended or returned
  ncalls,                \* calls started
  last,                  \* the last step, when it was a clear_conversation
  cat,                   \* a categorizer call on its own (categorizer specification)
  factory_call           \* the last call of a ModelFactory method and its result

vars == <<conversation_history, current_model, providers, created, calls, ncalls,
          last, cat, factory_call>>

agentVars == <<conversation_history, current_model, providers, created, calls, ncalls,
               last>>

EmptyDict == [u \in {} |-> <<>>]

NoReply == [kind |-> None]

Step(op, user_id, had_key, hist_before) ==
  [op |-> op, user_id |-> user_id, had_key |-> had_key, hist_before |-> hist_before]

NoStep == Step(None, None, FALSE, EmptyDict)

\* trace lists the stages of process_thread_message the call has gone through;
\* response is the content of the local `response` once generate_response returned
IdleCall ==
  [pc |-> "idle", op |-> None, user_id |-> None, message |-> "", thread_context |-> <<>>,
   model |-> NoModel, regex_category |-> None, category |-> None, sent |-> <<>>,
   ret |-> Returned(""), outcome |-> None, hist_before |-> EmptyDict,
   prev |-> NoStep, trace |-> <<>>, response |-> None]

NewCall(op, user_id, message, thread_context) ==
  [IdleCall EXCEPT !.op = op, !.user_id = user_id, !.message = message,
                   !.thread_context = thread_context,
                   !.hist_before = conversation_history, !.prev = last]

CatIdle ==
  [pc |-> "idle", mode |-> None, text |-> "", thread_context |-> <<>>, ai_model |-> NoModel,
   reply |-> NoReply, regex_category |-> None, llm |-> Returned(None),
   result |-> Returned(None), category |-> None]

\* AIAgent.__init__ with the default provider constructed
AgentInit ==
  /\ conversation_history = EmptyDict
  /\ current_model = switch_model(InitialProviders, DefaultProvider, TRUE, 1).val
  /\ providers = InitialProviders
  /\ created = 1
  /\ calls = [r \in Reqs |-> IdleCall]
  /\ ncalls = 0
  /\ last = NoStep

NoFactoryCall ==
  [op |-> None, name |-> None, model_class |-> None, ret |-> Returned(None),
   providers_before |-> <<>>, created_before |-> 0]

Init == AgentInit /\ cat = CatIdle /\ factory_call = NoFactoryCall

InFlight(r) ==
  calls[r].pc \in {"await_generate", "await_categorize", "await_thread_generate",
                   "await_health"}

\* `if provider and self.current_model and provider != self.current_model.provider`
NeedsSwitch_DefaultWhenNone(provider) ==
  /\ current_model # NoModel
  /\ (IF provider = None THEN DefaultProvider ELSE provider) # current_model.provider

NeedsSwitch(provider) ==
  provider # None /\ current_model # NoModel /\ provider # current_model.provider

\* the optional provider switch that opens process_message and process_thread_message
Switched_KeepsOnFailure(provider, constructs) ==
  IF NeedsSwitch(provider) /\ ~switch_model(providers, provider, constructs, created + 1).raised
  THEN switch_model(providers, provider, constructs, created + 1)
  ELSE Returned(current_model)

Switched(provider, constructs) ==
  IF NeedsSwitch(provider) THEN switch_model(providers, provider, constructs, created + 1)
  ELSE Returned(current_model)

(***************************************************************************)
(* AIAgent.process_message.  The coroutine runs without interruption up to *)
(* `await self.current_model.generate_response(...)` and, when the call    *)
(* comes back, from there to its return.                                   *)
(***************************************************************************)
ProcessStart(r, user_id, message, provider, constructs) ==
  /\ ~InFlight(r)
  /\ ncalls' = ncalls + 1
  /\ last' = NoStep
  /\ UNCHANGED <<providers, cat, factory_call>>
  /\ \E sw \in {Switched(provider, constructs)} :
       LET call == NewCall("process", user_id, message, <<>>)
       IN
         IF sw.raised
         THEN \* _switch_model re-raises: the call ends before it touches the history
              /\ calls' = [calls EXCEPT ![r] =
                    [call EXCEPT !.pc = "returned", !.ret = sw, !.outcome = "switch_failed"]]
              /\ UNCHANGED <<conversation_history, current_model, created>>
         ELSE /\ current_model' = sw.val
              /\ created' = IF NeedsSwitch(provider) THEN created + 1 ELSE created
              /\ conversation_history' = AddUserMessage(conversation_history, user_id, message)
              /\ IF sw.val = NoModel
                 THEN \* RuntimeError("No AI model loaded"), caught by the except clause
                      /\ calls' = [calls EXCEPT ![r] =
                            [call EXCEPT !.pc = "returned", !.ret = Returned(ProcessApology),
                                         !.outcome = "generate_failed"]]
                 ELSE /\ calls' = [calls EXCEPT ![r] =
                            [call EXCEPT !.pc = "await_generate", !.model = sw.val,
                                         !.sent = conversation_history'[user_id]]]

\* ProcessReturn creating the list again when the key is gone
ProcessReturn_Recreates(r, outcome) ==
  /\ calls[r].pc = "await_generate"
  /\ last' = NoStep
  /\ UNCHANGED <<current_model, providers, created, ncalls, cat, factory_call>>
  /\ LET user_id == calls[r].user_id
         response == IF outcome.kind = "ok" THEN outcome.content ELSE None
     IN  IF outcome.kind = "ok"
         THEN /\ conversation_history' =
                   SetHistory(conversation_history, user_id,
                              Append(IF user_id \in DOMAIN conversation_history
                                     THEN conversation_history[user_id] ELSE <<>>,
                                     AIMessage("assistant", outcome.content, NoMetadata)))
              /\ calls' = [calls EXCEPT ![r] =
                    [@ EXCEPT !.pc = "returned", !.ret = Returned(outcome.content),
                              !.outcome = "ok", !.response = response]]
         ELSE /\ calls' = [calls EXCEPT ![r] =
                    [@ EXCEPT !.pc = "returned", !.ret = Returned(ProcessApology),
                              !.outcome = "generate_failed", !.response = response]]
              /\ UNCHANGED conversation_history

ProcessReturn(r, outcome) ==
  /\ calls[r].pc = "await_generate"
  /\ last' = NoStep
  /\ UNCHANGED <<current_model, providers, created, ncalls, cat, factory_call>>
  /\ LET user_id == calls[r].user_id
         response == IF outcome.kind = "ok" THEN outcome.content ELSE None
     IN  IF outcome.kind = "ok" /\ user_id \in DOMAIN conversation_history
         THEN /\ conversation_history' =
                   AddAssistantMessage(conversation_history, user_id, outcome.content)
              /\ calls' = [calls EXCEPT ![r] =
                    [@ EXCEPT !.pc = "returned", !.ret = Returned(outcome.content),
                              !.outcome = "ok", !.response = response]]
         ELSE \* generate_response raised, or the append raised KeyError
              /\ calls' = [calls EXCEPT ![r] =
                    [@ EXCEPT !.pc = "returned", !.ret = Returned(ProcessApology),
                              !.outcome = "generate_failed", !.response = response]]
              /\ UNCHANGED conversation_history

(***************************************************************************)
(* AIAgent.process_thread_message and _process_technical_thread_message.   *)
(* The coroutine is suspended in the classification call of Stage B and in *)
(* the model call of the technical path.                                   *)
(***************************************************************************)
\* from the return of categorize_request_async to the next suspension or return
AfterCategorize_AllToModel(call, category) ==
  IF current_model = NoModel
  THEN [call EXCEPT !.pc = "returned", !.category = category,
                    !.ret = Returned(ThreadApology), !.outcome = "generate_failed",
                    !.trace = @ \o <<"BUILD_PROMPT", "APOLOGY", "DONE">>]
  ELSE [call EXCEPT !.pc = "await_thread_generate", !.category = category,
                    !.model = current_model,
                    !.sent = ThreadMessages(category, call.user_id, call.message,
                                            call.thread_context),
                    !.trace = @ \o <<"BUILD_PROMPT", "CALL_MODEL">>]

AfterCategorize(call, category) ==
  IF category \in {TECHNICAL_ISSUE, ENGINEERING_QUERY}
  THEN IF current_model = NoModel
       THEN [call EXCEPT !.pc = "returned", !.category = category,
                         !.ret = Returned(ThreadApology), !.outcome = "generate_failed",
                         !.trace = @ \o <<"BUILD_PROMPT", "APOLOGY", "DONE">>]
       ELSE [call EXCEPT !.pc = "await_thread_generate", !.category = category,
                         !.model = current_model,
                         !.sent = ThreadMessages(category, call.user_id, call.message,
                                                 call.thread_context),
                         !.trace = @ \o <<"BUILD_PROMPT", "CALL_MODEL">>]
  ELSE [call EXCEPT !.pc = "returned", !.category = category,
                    !.ret = Returned(generate_response(category, call.message,
                                                       call.thread_context)),
                    !.outcome = "dispatched",
                    !.trace = @ \o <<"DISPATCH_TEMPLATE", "DONE">>]

ThreadStart(r, user_id, message, thread_context, provider, constructs) ==
  /\ ~InFlight(r)
  /\ ncalls' = ncalls + 1
  /\ last' = NoStep
  /\ UNCHANGED <<conversation_history, providers, cat, factory_call>>
  /\ \E sw \in {Switched(provider, constructs)},
        regex_category \in {categorize_with_regex(message, thread_context)} :
       LET call == [NewCall("process_thread", user_id, message, thread_context)
                      EXCEPT !.trace = <<"START">>]
       IN
         IF sw.raised
         THEN /\ calls' = [calls EXCEPT ![r] =
                    [call EXCEPT !.pc = "returned", !.ret = sw, !.outcome = "switch_failed"]]
              /\ UNCHANGED <<current_model, created>>
         ELSE /\ current_model' = sw.val
              /\ created' = IF NeedsSwitch(provider) THEN created + 1 ELSE created
              /\ IF sw.val = NoModel
                 THEN calls' = [calls EXCEPT ![r] =
                        AfterCategorize([call EXCEPT !.regex_category = regex_category,
                                                     !.trace = @ \o <<"CATEGORIZE">>],
                                        regex_category)]
                 ELSE calls' = [calls EXCEPT ![r] =
                        [call EXCEPT !.pc = "await_categorize", !.model = sw.val,
                                     !.regex_category = regex_category,
                                     !.trace = @ \o <<"CATEGORIZE">>]]

ThreadCategorized(r, reply) ==
  /\ calls[r].pc = "await_categorize"
  /\ last' = NoStep
  /\ UNCHANGED <<conversation_history, current_model, providers, created, ncalls, cat,
                 factory_call>>
  /\ \E llm \in {categorize_with_llm_async(calls[r].model, reply)} :
       \E category \in {Reconcile(calls[r].regex_category, llm)} :
         calls' = [calls EXCEPT ![r] =
           IF category.raised
           THEN [@ EXCEPT !.pc = "returned", !.ret = category, !.outcome = "categorize_failed"]
           ELSE AfterCategorize(@, category.val)]

ThreadReturn_Retries(r, outcome) ==
  /\ calls[r].pc = "await_thread_generate"
  /\ last' = NoStep
  /\ UNCHANGED <<current_model, providers, created, ncalls, cat, factory_call>>
  /\ conversation_history' =
       ThreadHistory(conversation_history, calls[r].user_id, calls[r].message, outcome)
  /\ IF outcome.kind = "ok"
     THEN /\ calls' = [calls EXCEPT ![r] =
                [@ EXCEPT !.pc = "returned",
                          !.ret = Returned(outcome.content \o CategoryFooter(calls[r].category)),
                          !.outcome = "ok", !.response = outcome.content,
                          !.trace = @ \o <<"UPDATE_HISTORY", "APPEND_FOOTER", "DONE">>]]
     ELSE /\ calls' = [calls EXCEPT ![r] = [@ EXCEPT !.trace = @ \o <<"CALL_MODEL">>]]

ThreadReturn(r, outcome) ==
  /\ calls[r].pc = "await_thread_generate"
  /\ last' = NoStep
  /\ UNCHANGED <<current_model, providers, created, ncalls, cat, factory_call>>
  /\ conversation_history' =
       ThreadHistory(conversation_history, calls[r].user_id, calls[r].message, outcome)
  /\ IF outcome.kind = "ok"
     THEN /\ calls' = [calls EXCEPT ![r] =
                [@ EXCEPT !.pc = "returned",
                          !.ret = Returned(outcome.content \o CategoryFooter(calls[r].category)),
                          !.outcome = "ok", !.response = outcome.content,
                          !.trace = @ \o <<"UPDATE_HISTORY", "APPEND_FOOTER", "DONE">>]]
     ELSE /\ calls' = [calls EXCEPT ![r] =
                [@ EXCEPT !.pc = "returned", !.ret = Returned(ThreadApology),
                          !.outcome = "generate_failed",
                          !.trace = @ \o <<"APOLOGY", "DONE">>]]

\* AIAgent.clear_conversation: no await inside, one step
Clear(user_id) ==
  /\ conversation_history' = clear_conversation(conversation_history, user_id)
  /\ last' = Step("clear", user_id, user_id \in DOMAIN conversation_history,
                  conversation_history)
  /\ UNCHANGED <<current_model, providers, created, calls, ncalls, cat, factory_call>>

(***************************************************************************)
(* Spec: the calls of the orchestrator one after the other (a call starts  *)
(* when the one before has returned).                                      *)
(***************************************************************************)
Next ==
  \/ \E u \in Users, m \in Messages, p \in ProviderArgs :
       ncalls < MaxCalls /\ ProcessStart(1, u, m, p.provider, p.constructs)
  \/ \E o \in GenerateOutcomes : ProcessReturn(1, o)
  \/ \E u \in Users, m \in Messages, t \in ThreadContexts, p \in ProviderArgs :
       ncalls < MaxCalls /\ ThreadStart(1, u, m, t, p.provider, p.constructs)
  \/ \E o \in ClassifyOutcomes : ThreadCategorized(1, o)
  \/ \E o \in GenerateOutcomes : ThreadReturn(1, o)
  \/ \E u \in Users : ~InFlight(1) /\ Clear(u)

Spec == Init /\ [][Next]_vars

(***************************************************************************)
(* SpecProcess: one user, process calls only, every model call succeeds    *)
(* (the run of test_conversation_history_limit, for any number of calls).  *)
(***************************************************************************)
\* process calls of one behaviour of SpecProcess
MaxProcessCalls == 12

NextProcess ==
  \/ \E m \in Messages :
       ncalls < MaxProcessCalls /\ ProcessStart(1, "U1", m, None, TRUE)
  \/ ProcessReturn(1, [kind |-> "ok", content |-> "Test response"])

SpecProcess == Init /\ [][NextProcess]_vars

(***************************************************************************)
(* Properties of the conversation history.                                 *)
(***************************************************************************)
\* the history list of a user, empty when the user has no key
HistoryOf(user_id) ==
  IF user_id \in DOMAIN conversation_history THEN conversation_history[user_id] ELSE <<>>

Min(a, b) == IF a <= b THEN a ELSE b

\* no call is suspended in a model call
BetweenCalls == ~InFlight(1)

\* the call in slot 1 has just returned (no clear has run since)
JustReturned(op, outcome) ==
  /\ calls[1].pc = "returned"
  /\ calls[1].op = op
  /\ calls[1].outcome = outcome
  /\ last = NoStep

\* C1: with one user and a model whose calls all succeed, after N process
\* calls the user's history has exactly min(2*N, 10) messages.
C1_LengthIsMinOfTwiceCallsAndTen ==
  BetweenCalls => Len(HistoryOf("U1")) = Min(2 * ncalls, 10)

\* C2: between calls, no user's history holds more than 10 messages.
C2_AtMostTenMessages ==
  BetweenCalls => \A u \in DOMAIN conversation_history : Len(conversation_history[u]) <= 10

\* C3: when the model call of process fails, process returns the apology and
\* the history after the call is the history before the call.
C3_FailedProcessLeavesHistory ==
  JustReturned("process", "generate_failed") =>
    /\ calls[1].ret = Returned(ProcessApology)
    /\ conversation_history = calls[1].hist_before

\* C4: when the model call of the technical path of process_thread raises,
\* process_thread returns the apology and every user's history is what it was
\* before the call.
C4_FailedThreadLeavesHistory ==
  JustReturned("process_thread", "generate_failed") =>
    /\ calls[1].ret = Returned(ThreadApology)
    /\ conversation_history = calls[1].hist_before

\* the failing call of C4 came after a call that left a history behind
C4_Witness ==
  /\ JustReturned("process_thread", "generate_failed")
  /\ calls[1].category \in {TECHNICAL_ISSUE, ENGINEERING_QUERY}
  /\ calls[1].hist_before # EmptyDict

\* C5: between calls every history is made of adjacent (user, assistant)
\* pairs: each user entry is followed by an assistant entry and each
\* assistant entry is preceded by a user entry.
C5_AdjacentPairs ==
  BetweenCalls =>
    \A u \in DOMAIN conversation_history :
      LET h == conversation_history[u]
      IN  \A i \in 1..Len(h) :
            /\ h[i].role = "user" => (i < Len(h) /\ h[i + 1].role = "assistant")
            /\ h[i].role = "assistant" => (i > 1 /\ h[i - 1].role = "user")

\* C6: clear removes the user's key and leaves the other users alone, does
\* nothing when the key is absent, and the next process call of the user
\* starts from an empty history.
C6_ClearRemovesKey ==
  /\ last.op = "clear" =>
       /\ last.user_id \notin DOMAIN conversation_history
       /\ DOMAIN conversation_history = DOMAIN last.hist_before \ {last.user_id}
       /\ \A u \in DOMAIN conversation_history :
            conversation_history[u] = last.hist_before[u]
       /\ ~last.had_key => conversation_history = last.hist_before
  /\ ( /\ calls[1].pc = "await_generate"
       /\ calls[1].prev.op = "clear"
       /\ calls[1].prev.user_id = calls[1].user_id )
     => /\ calls[1].sent = <<AIMessage("user", calls[1].message, NoMetadata)>>
        /\ conversation_history[calls[1].user_id] = calls[1].sent

\* a process call of a user right after a clear that removed that user's key
C6_Witness ==
  /\ calls[1].pc = "await_generate"
  /\ calls[1].prev.op = "clear"
  /\ calls[1].prev.had_key
  /\ calls[1].prev.user_id = calls[1].user_id

(***************************************************************************)
(* SpecCat: one call of the categorizer on its own, either the regex-only  *)
(* categorize_request or categorize_request_async, which is suspended in   *)
(* the classification call of Stage B when a model is supplied.            *)
(***************************************************************************)
\* thread contexts of at most MaxThread entries
CatThreadContexts ==
  UNION {[1..k -> {Entry("U2", t, 1) : t \in CatThreadTexts}] : k \in 0..MaxThread}

\* the ai_model argument: None or a backend
CatModels == {NoModel, [cls |-> "OpenAIModel", provider |-> "openai", id |-> 1]}

\* replies of the classification call that name no category or are no reply
CatFailureReplies ==
  {[kind |-> "raise", exc |-> e] : e \in ExceptionClasses}
    \cup {[kind |-> "no_content"]}
    \cup {[kind |-> "ok", content |-> c] :
            c \in {"", "   ", "banana", "{\"category\": ", "{oops}", "[{}]",
                   "{\"category\": 5}", "{\"category\": \"banana\"}", "{\"kind\": 1}"}}

\* replies of the classification call that name a category
CatCategoryReplies ==
  {[kind |-> "ok", content |-> c] :
     c \in {"technical_issue", "FYI", " Customer Query\n", "pr_review",
            "{\"category\": \"feature_request\"}", "unknown"}}

CatReplies == CatFailureReplies \cup CatCategoryReplies

\* RequestCategorizer.categorize_request, called and returned
CategorizeSync(text, thread_context) ==
  /\ cat.pc = "idle"
  /\ \E regex_category \in {categorize_request(text, thread_context)} :
       cat' = [CatIdle EXCEPT !.pc = "returned", !.mode = "sync", !.text = text,
                              !.thread_context = thread_context,
                              !.regex_category = regex_category,
                              !.result = Returned(regex_category)]
  /\ UNCHANGED <<agentVars, factory_call>>

\* categorize_request_async up to the classification call, or to its return
\* when no model is supplied
CategorizeAsyncStart(text, thread_context, ai_model) ==
  /\ cat.pc = "idle"
  /\ \E regex_category \in {categorize_with_regex(text, thread_context)} :
       LET call == [CatIdle EXCEPT !.mode = "async", !.text = text,
                                   !.thread_context = thread_context,
                                   !.ai_model = ai_model,
                                   !.regex_category = regex_category]
       IN  cat' = IF ai_model # NoModel
                  THEN [call EXCEPT !.pc = "await_llm"]
                  ELSE [call EXCEPT !.pc = "returned", !.llm = Returned(UNKNOWN),
                                    !.result = Returned(regex_category)]
  /\ UNCHANGED <<agentVars, factory_call>>

\* categorize_request_async from the outcome of the classification call on
CategorizeAsyncReply(reply) ==
  /\ cat.pc = "await_llm"
  /\ \E llm \in {categorize_with_llm_async(cat.ai_model, reply)} :
       cat' = [cat EXCEPT !.pc = "returned", !.reply = reply, !.llm = llm,
                          !.result = Reconcile(cat.regex_category, llm)]
  /\ UNCHANGED <<agentVars, factory_call>>

NextCat ==
  \/ \E t \in CatTexts, c \in CatThreadContexts : CategorizeSync(t, c)
  \/ \E t \in CatTexts, c \in CatThreadContexts, m \in CatModels :
       CategorizeAsyncStart(t, c, m)
  \/ \E r \in CatReplies : CategorizeAsyncReply(r)

SpecCat == Init /\ [][NextCat]_vars

(***************************************************************************)
(* Properties of the categorizer.                                          *)
(***************************************************************************)
AsyncReturned == cat.pc = "returned" /\ cat.mode = "async"

SyncReturned == cat.pc = "returned" /\ cat.mode = "sync"

\* C7: the asynchronous categorize returns the Stage B result b when a model
\* is supplied and b is not UNKNOWN, also when Stage A disagrees, and the
\* Stage A result a when b is UNKNOWN or no model is supplied.
C7_StageBWinsUnlessUnknown ==
  AsyncReturned =>
    /\ ~cat.result.raised
    /\ (cat.ai_model # NoModel /\ ~cat.llm.raised /\ cat.llm.val # UNKNOWN)
         => cat.result.val = cat.llm.val
    /\ (cat.ai_model = NoModel \/ cat.llm = Returned(UNKNOWN))
         => cat.result.val = cat.regex_category

\* the two stages have each named a category and disagree
C7_Witness ==
  /\ AsyncReturned
  /\ cat.ai_model # NoModel
  /\ cat.regex_category # UNKNOWN
  /\ cat.llm.val # UNKNOWN
  /\ cat.llm.val # cat.regex_category

\* C8: the asynchronous categorize never raises because of Stage B and
\* returns a Category; when the classification call raises or its reply is
\* empty, missing, unparseable or malformed JSON, it returns the Stage A
\* category.
C8_StageBFailureFallsBack ==
  AsyncReturned =>
    /\ ~cat.result.raised
    /\ cat.result.val \in Categories
    /\ cat.reply \in CatFailureReplies =>
         cat.result.val = categorize_with_regex(cat.text, cat.thread_context)

\* the classification call raised and Stage A had named a category
C8_Witness ==
  /\ AsyncReturned
  /\ cat.reply.kind = "raise"
  /\ cat.regex_category \notin {UNKNOWN, TECHNICAL_ISSUE}

\* the number of matches of all patterns of a category on the thread context
RECURSIVE ThreadMatches(_, _, _)
ThreadMatches(category, thread_context, m) ==
  IF m > Len(thread_context) THEN 0
  ELSE TextScore(category, 1, Lower(thread_context[m].text))
         + ThreadMatches(category, thread_context, m + 1)

\* the aggregate score of a category in half units: 1 per text match and
\* 0.5 per thread-context match
Aggregate(category, text, thread_context) ==
  2 * TextScore(category, 1, Lower(text)) + ThreadMatches(category, thread_context, 1)

DeclarationIndex(category) ==
  CHOOSE i \in 1..Len(PatternCategories) : PatternCategories[i] = category

\* the member of a non-empty set of categories that is declared first
FirstDeclared(S) ==
  CHOOSE c \in S : \A d \in S : DeclarationIndex(c) <= DeclarationIndex(d)

TopScore(text, thread_context) ==
  LET scores == {Aggregate(c, text, thread_context) : c \in DOMAIN CATEGORY_PATTERNS}
  IN  CHOOSE x \in scores : \A y \in scores : y <= x

\* the categories that share the highest aggregate score
Tied(text, thread_context) ==
  {c \in DOMAIN CATEGORY_PATTERNS :
     Aggregate(c, text, thread_context) = TopScore(text, thread_context)}

\* C9: Stage A returns UNKNOWN whenever the aggregate score of every category
\* is 0, with an empty and with a non-empty thread context.
C9_UnknownWhenNothingMatches ==
  (SyncReturned /\ TopScore(cat.text, cat.thread_context) = 0)
    => cat.result.val = UNKNOWN

\* C10 as stated: among categories tied at the highest score the one declared
\* first in the pattern table is returned, wherever the scores came from.
C10_FirstDeclaredWinsTie ==
  ( /\ SyncReturned
    /\ TopScore(cat.text, cat.thread_context) > 0
    /\ Cardinality(Tied(cat.text, cat.thread_context)) >= 2 )
  => cat.result.val = FirstDeclared(Tied(cat.text, cat.thread_context))

\* the tied categories that are first in the order of the score table: those
\* with a match in the text when there is one, all of them otherwise
TiedInText(text, thread_context) ==
  LET tied == Tied(text, thread_context)
      in_text == {c \in tied : TextScore(c, 1, Lower(text)) > 0}
  IN  IF in_text # {} THEN in_text ELSE tied

\* C10 amended: among categories tied at a positive highest score, a category
\* with a match in the text comes before one that scored in the thread
\* context only, and within each group the one declared first wins.
C10_FirstInsertedWinsTie ==
  ( /\ SyncReturned
    /\ TopScore(cat.text, cat.thread_context) > 0
    /\ Cardinality(Tied(cat.text, cat.thread_context)) >= 2 )
  => cat.result.val = FirstDeclared(TiedInText(cat.text, cat.thread_context))

\* a tie between a category matched in the text and a category declared
\* before it that scored in the thread context only
C10_Witness ==
  /\ SyncReturned
  /\ TopScore(cat.text, cat.thread_context) > 0
  /\ Cardinality(Tied(cat.text, cat.thread_context)) >= 2
  /\ FirstDeclared(TiedInText(cat.text, cat.thread_context))
       # FirstDeclared(Tied(cat.text, cat.thread_context))

\* C11: Stage A's score of a category is its number of matches in the text
\* plus half its number of matches over the thread context (here in half
\* units), and the category returned has the highest score.
C11_ScoreIsTextPlusHalfThread ==
  SyncReturned =>
    LET category_scores == CategoryScores(cat.text, cat.thread_context)
    IN  /\ \A j \in 1..Len(category_scores) :
             category_scores[j].v
               = Aggregate(category_scores[j].k, cat.text, cat.thread_context)
        /\ \A c \in DOMAIN CATEGORY_PATTERNS :
             ~DictHas(category_scores, c) => Aggregate(c, cat.text, cat.thread_context) = 0
        /\ cat.result.val # UNKNOWN =>
             Aggregate(cat.result.val, cat.text, cat.thread_context)
               = TopScore(cat.text, cat.thread_context)
        /\ cat.result.val = UNKNOWN => TopScore(cat.text, cat.thread_context) = 0

\* one match in the text (1.0) lost to three thread-context matches of
\* another category (1.5)
C11_Witness ==
  /\ SyncReturned
  /\ cat.result.val # UNKNOWN
  /\ TextScore(cat.result.val, 1, Lower(cat.text)) = 0
  /\ Aggregate(cat.result.val, cat.text, cat.thread_context) = 3
  /\ \E c \in DOMAIN CATEGORY_PATTERNS :
       /\ TextScore(c, 1, Lower(cat.text)) = 1
       /\ Aggregate(c, cat.text, cat.thread_context) = 2

\* ---------------------------------------------------------------------------
\* Thread path of the orchestrator

TechnicalCategories == {TECHNICAL_ISSUE, ENGINEERING_QUERY}

Stages(r) == {calls[r].trace[i] : i \in 1..Len(calls[r].trace)}

Categorized(r) == calls[r].op = "process_thread" /\ calls[r].category # None

\* C12: once categorization in process_thread has given a category other than
\* TECHNICAL_ISSUE and ENGINEERING_QUERY, the call has returned exactly the
\* template text generate_response(category, text, thread_context), and no
\* generate call to the model was made for it.
C12_OtherCategoryIsDispatched ==
  (Categorized(1) /\ calls[1].category \notin TechnicalCategories) =>
    /\ calls[1].pc = "returned"
    /\ calls[1].ret = Returned(generate_response(calls[1].category, calls[1].message,
                                                 calls[1].thread_context))
    /\ "CALL_MODEL" \notin Stages(1)
    /\ calls[1].sent = IdleCall.sent

C12_Witness ==
  /\ Categorized(1) /\ calls[1].category = FYI
  /\ calls[1].regex_category = TECHNICAL_ISSUE
  /\ calls[1].thread_context # <<>>
  /\ calls[1].ret.val # ""

(***************************************************************************)
(* SpecThread: process_thread calls only.  An awaited model call completes *)
(* (it returns or raises), so the coroutine is resumed: weak fairness on   *)
(* the two continuations.                                                  *)
(***************************************************************************)
NextThread ==
  \/ \E u \in Users, m \in Messages, t \in ThreadContexts, p \in ProviderArgs :
       ncalls < MaxCalls /\ ThreadStart(1, u, m, t, p.provider, p.constructs)
  \/ \E o \in ClassifyOutcomes : ThreadCategorized(1, o)
  \/ \E o \in GenerateOutcomes : ThreadReturn(1, o)

SpecThread ==
  /\ Init /\ [][NextThread]_vars
  /\ WF_vars(\E o \in ClassifyOutcomes : ThreadCategorized(1, o))
  /\ WF_vars(\E o \in GenerateOutcomes : ThreadReturn(1, o))

\* the stages of a call after START, CATEGORIZE
PathModelSuccess ==
  <<"BUILD_PROMPT", "CALL_MODEL", "UPDATE_HISTORY", "APPEND_FOOTER", "DONE">>
PathModelFailure == <<"BUILD_PROMPT", "CALL_MODEL", "APOLOGY", "DONE">>
PathDispatch == <<"DISPATCH_TEMPLATE", "DONE">>

IsPrefix(s, t) == Len(s) <= Len(t) /\ SubSeq(t, 1, Len(s)) = s

Occurrences(stage, r) == Cardinality({i \in 1..Len(calls[r].trace) : calls[r].trace[i] = stage})

\* the call in slot r is a process_thread call whose provider switch succeeded
SwitchSucceeded(r) ==
  calls[r].op = "process_thread" /\ calls[r].pc # "idle" /\ calls[r].outcome # "switch_failed"

AfterCategorizeStages(r) == SubSeq(calls[r].trace, 3, Len(calls[r].trace))

C13_OneOfThreePaths ==
  SwitchSucceeded(1) =>
    /\ IsPrefix(<<"START", "CATEGORIZE">>, calls[1].trace)
    /\ \E path \in {PathModelSuccess, PathModelFailure, PathDispatch} :
         IsPrefix(AfterCategorizeStages(1), path)
    /\ calls[1].pc = "returned" =>
         AfterCategorizeStages(1) =
           IF calls[1].category \in TechnicalCategories
           THEN IF calls[1].outcome = "ok" THEN PathModelSuccess ELSE PathModelFailure
           ELSE PathDispatch
    /\ Occurrences("CALL_MODEL", 1) <= 1
    /\ "UPDATE_HISTORY" \in Stages(1) =>
         /\ calls[1].outcome = "ok"
         /\ \E i, j \in 1..Len(calls[1].trace) :
              i < j /\ calls[1].trace[i] = "CALL_MODEL" /\ calls[1].trace[j] = "UPDATE_HISTORY"

\* a process_thread call changes the history only when its model call returns
C13_HistoryStep ==
  (calls'[1].op = "process_thread" /\ conversation_history' # conversation_history) =>
    /\ calls[1].pc = "await_thread_generate"
    /\ calls'[1].pc = "returned" /\ calls'[1].outcome = "ok"

\* C13: a process_thread call whose provider switch succeeds returns, and after
\* CATEGORIZE it goes through exactly one of: BUILD_PROMPT, CALL_MODEL,
\* UPDATE_HISTORY, APPEND_FOOTER, DONE (technical or engineering, model call
\* succeeded); BUILD_PROMPT, CALL_MODEL, APOLOGY, DONE (model call failed);
\* DISPATCH_TEMPLATE, DONE (any other category).  UPDATE_HISTORY comes only
\* after a successful CALL_MODEL of the same call, and CALL_MODEL happens at
\* most once per call.
C13_ThreadPaths ==
  /\ []C13_OneOfThreePaths
  /\ [][C13_HistoryStep]_vars
  /\ (SwitchSucceeded(1) /\ InFlight(1)) ~> (calls[1].pc = "returned")

C13_Witness ==
  /\ SwitchSucceeded(1) /\ calls[1].pc = "returned"
  /\ created > 1
  /\ AfterCategorizeStages(1) = PathModelFailure
  /\ ncalls = 2

\* ---------------------------------------------------------------------------
\* Missing-information check of the TECHNICAL_ISSUE template

ScenarioText == "We are seeing a 500 error and stack trace, steps: click button twice"

\* the regex-only categorizer has returned for the scenario text, no thread context
ScenarioReturned == SyncReturned /\ cat.text = ScenarioText /\ cat.thread_context = <<>>

\* C14 as stated: for the scenario text with no thread context the regex-only
\* categorizer returns TECHNICAL_ISSUE and the missing-information check
\* flags "Environment details" only.
C14_OnlyEnvironmentFlagged ==
  ScenarioReturned =>
    /\ cat.result.val = TECHNICAL_ISSUE
    /\ MissingInfo(cat.text) = <<"Environment details">>

\* C14 amended: the categorizer returns TECHNICAL_ISSUE and the check flags
\* "Steps to reproduce" and "Environment details" (the text has "steps" but
\* neither "reproduce" nor "repro"); "Error messages/logs" is not flagged.
C14_StepsAndEnvironmentFlagged ==
  ScenarioReturned =>
    /\ cat.result.val = TECHNICAL_ISSUE
    /\ MissingInfo(cat.text) = <<"Steps to reproduce", "Environment details">>
    /\ Contains(generate_response(cat.result.val, cat.text, cat.thread_context),
                "**Missing Information:**\n- Steps to reproduce\n- Environment details\n\n")

C14_Witness ==
  /\ ScenarioReturned
  /\ Contains(Lower(cat.text), "steps") /\ Contains(Lower(cat.text), "error")
  /\ ~Contains(Lower(cat.text), "repro")

(***************************************************************************)
(* SpecRender: one call of RequestCategorizer.generate_response or of      *)
(* RequestCategorizer.get_routing_info.                                    *)
(***************************************************************************)
\* fragments with and without the keywords of the missing-information check
StepsFragments == {"please look", "can Reproduce it", "REPRO attached"}
ErrorFragments == {"today", "an Error", "EXCEPTION thrown"}
EnvironmentFragments == {"thanks", "Environment prod", "on version 2"}

RenderTexts ==
  {s \o ", " \o e \o ", " \o v :
     s \in StepsFragments, e \in ErrorFragments, v \in EnvironmentFragments}

Render(category, text, thread_context) ==
  /\ cat.pc = "idle"
  /\ \E response \in {generate_response(category, text, thread_context)} :
       cat' = [CatIdle EXCEPT !.pc = "returned", !.mode = "render", !.text = text,
                              !.thread_context = thread_context,
                              !.category = category, !.result = Returned(response)]
  /\ UNCHANGED <<agentVars, factory_call>>

GetRoutingInfo(category) ==
  /\ cat.pc = "idle"
  /\ cat' = [CatIdle EXCEPT !.pc = "returned", !.mode = "routing", !.category = category,
                            !.result = Returned(get_routing_info(category))]
  /\ UNCHANGED <<agentVars, factory_call>>

NextRender ==
  \/ \E category \in Categories, text \in RenderTexts : Render(category, text, <<>>)
  \/ \E category \in Categories : GetRoutingInfo(category)

SpecRender == Init /\ [][NextRender]_vars

Rendered(category) == cat.pc = "returned" /\ cat.mode = "render" /\ cat.category = category

\* the bullet of a checklist item is in the rendered response
Flagged(response, item) == Contains(response, "- " \o item \o "\n")

HasAny(text, keywords) == \E k \in keywords : Contains(Lower(text), k)

FlagsOf(response) ==
  <<Flagged(response, "Steps to reproduce"), Flagged(response, "Error messages/logs"),
    Flagged(response, "Environment details")>>

\* C15: in the TECHNICAL_ISSUE response "Steps to reproduce" is flagged iff
\* the text has neither "reproduce" nor "repro" (any case), "Error
\* messages/logs" iff neither "error" nor "exception", "Environment details"
\* iff neither "environment" nor "version"; all 8 combinations of the three
\* flags occur, and the Missing Information section is in the response iff
\* at least one flag fires.
C15_FlagsFollowKeywords ==
  Rendered(TECHNICAL_ISSUE) =>
    LET response == cat.result.val
    IN  /\ Flagged(response, "Steps to reproduce") <=> ~HasAny(cat.text, {"reproduce", "repro"})
        /\ Flagged(response, "Error messages/logs") <=> ~HasAny(cat.text, {"error", "exception"})
        /\ Flagged(response, "Environment details")
             <=> ~HasAny(cat.text, {"environment", "version"})
        /\ Contains(response, "**Missing Information:**")
             <=> \E i \in 1..3 : FlagsOf(response)[i]
        /\ \A flags \in [1..3 -> BOOLEAN] :
             \E text \in RenderTexts :
               FlagsOf(generate_response(TECHNICAL_ISSUE, text, <<>>)) = flags

C15_Witness ==
  /\ Rendered(TECHNICAL_ISSUE)
  /\ Contains(cat.text, "REPRO") /\ Contains(cat.text, "EXCEPTION")
  /\ Contains(cat.text, "version")
  /\ FlagsOf(cat.result.val) = <<FALSE, FALSE, FALSE>>
  /\ ~Contains(cat.result.val, "Missing Information")

RoutingReturned == cat.pc = "returned" /\ cat.mode = "routing"

\* C16: get_routing_info returns, for each of the 8 categories, a record with
\* action, route_to, priority and required_info, the priority being low,
\* medium or high; for UNKNOWN it is the default acknowledgment record.
C16_RoutingInfoTotal ==
  RoutingReturned =>
    /\ ~cat.result.raised
    /\ DOMAIN cat.result.val = {"action", "route_to", "priority", "required_info"}
    /\ cat.result.val.priority \in {"low", "medium", "high"}
    /\ cat.category = UNKNOWN =>
         /\ cat.result.val.action = "acknowledge"
         /\ cat.result.val.route_to = "ops_team"
         /\ cat.result.val.required_info = <<>>

C16_Witness ==
  /\ RoutingReturned /\ cat.category = UNKNOWN
  /\ cat.category \notin DOMAIN ROUTING_INFO
  /\ cat.result.val.priority = "medium"

(***************************************************************************)
(* SpecRegistry: the ModelFactory class methods called at runtime, next to *)
(* orchestrator calls that name a provider.  An awaited model call         *)
(* completes, so the continuations of a call are weakly fair.              *)
(***************************************************************************)
\* backend objects constructed in one behaviour of SpecRegistry
MaxCreated == 2

\* names given to register_provider
RegisterNames == {"mock", "local"}

\* classes given to register_provider; "object" does not inherit from AIModelInterface
RegisterClasses == {"MockAIProvider", "LocalHuggingFaceModel", "object"}

\* names given to create_model and as provider argument
CreateNames == {"gemini", "mock", "local", "nonexistent"}

FactoryCall(op, name, model_class, ret) ==
  [op |-> op, name |-> name, model_class |-> model_class, ret |-> ret,
   providers_before |-> providers, created_before |-> created]

Register(name, model_class) ==
  /\ \E registered \in {register_provider(providers, name, model_class)} :
       /\ providers' = IF registered.raised THEN providers ELSE registered.val
       /\ factory_call' = FactoryCall("register_provider", name, model_class,
                                      IF registered.raised THEN registered ELSE Returned(None))
  /\ UNCHANGED <<conversation_history, current_model, created, calls, ncalls, last, cat>>

Create(name, constructs) ==
  /\ \E model \in {create_model(providers, name, constructs, created + 1)} :
       /\ created' = IF model.raised THEN created ELSE created + 1
       /\ factory_call' = FactoryCall("create_model", name, None, model)
  /\ UNCHANGED <<conversation_history, current_model, providers, calls, ncalls, last, cat>>

AvailableProviders ==
  /\ factory_call' = FactoryCall("get_available_providers", None, None,
                                 Returned(get_available_providers(providers)))
  /\ UNCHANGED <<conversation_history, current_model, providers, created, calls, ncalls,
                 last, cat>>

NextRegistry ==
  \/ \E name \in RegisterNames, model_class \in RegisterClasses : Register(name, model_class)
  \/ \E name \in CreateNames, constructs \in BOOLEAN :
       created < MaxCreated /\ Create(name, constructs)
  \/ AvailableProviders
  \/ \E name \in CreateNames :
       ncalls < MaxCalls /\ created < MaxCreated /\ ProcessStart(1, "U1", "fyi", name, TRUE)
  \/ \E o \in GenerateOutcomes : ProcessReturn(1, o)
  \/ \E name \in CreateNames :
       ncalls < MaxCalls /\ created < MaxCreated
       /\ ThreadStart(1, "U1", "fyi", <<>>, name, TRUE)
  \/ \E o \in ClassifyOutcomes : ThreadCategorized(1, o)
  \/ \E o \in GenerateOutcomes : ThreadReturn(1, o)

SpecRegistry ==
  /\ Init /\ [][NextRegistry]_vars
  /\ WF_vars(\E o \in GenerateOutcomes : ProcessReturn(1, o))
  /\ WF_vars(\E o \in ClassifyOutcomes : ThreadCategorized(1, o))
  /\ WF_vars(\E o \in GenerateOutcomes : ThreadReturn(1, o))

ProviderNames ==
  {InitialProviders[j].k : j \in 1..Len(InitialProviders)} \cup RegisterNames \cup CreateNames

\* the text of msg that follows "Available providers: "
ListedIn(msg) ==
  LET at == CHOOSE i \in 1..Len(msg) : SubSeq(msg, i, i + 20) = "Available providers: "
  IN  SubSeq(msg, at + 21, Len(msg))

CreateMissed ==
  /\ factory_call.op = "create_model"
  /\ ~DictHas(factory_call.providers_before, factory_call.name)

C17_UnknownNameError ==
  CreateMissed =>
    /\ factory_call.ret.raised
    /\ factory_call.ret.val.cls = "ValueError"
    /\ Contains(factory_call.ret.val.msg, "Available providers: ")
    /\ \A n \in ProviderNames :
         Contains(ListedIn(factory_call.ret.val.msg), "'" \o n \o "'")
           <=> DictHas(factory_call.providers_before, n)

\* a create_model call that raises constructs nothing and leaves the registry
C17_FailedCreateStep ==
  (factory_call' # factory_call /\ factory_call'.op = "create_model"
   /\ factory_call'.ret.raised) =>
    UNCHANGED <<providers, created, current_model>>

\* C17: create_model with a name that is not in the registry raises a
\* ValueError whose message lists exactly the names registered at that
\* moment, those added by register_provider included; it constructs no
\* backend and leaves the registry as it was.
C17_UnknownProviderListsRegistry ==
  []C17_UnknownNameError /\ [][C17_FailedCreateStep]_vars

C17_Witness ==
  /\ CreateMissed /\ factory_call.name = "nonexistent"
  /\ DictHas(factory_call.providers_before, "mock")
  /\ Contains(factory_call.ret.val.msg, "'gemini', 'mock']")
  /\ created = factory_call.created_before /\ providers = factory_call.providers_before

Registered == factory_call.op = "register_provider"

\* C18: register_provider with a class that inherits from AIModelInterface
\* puts the name among the available providers and makes create_model build
\* that class under the name, whatever class the name had before; with any
\* other class it raises ValueError and the registry stays as it was.
C18_RegisterThenCreate ==
  /\ (Registered /\ factory_call.model_class \in BackendClasses) =>
       /\ ~factory_call.ret.raised
       /\ \E j \in 1..Len(get_available_providers(providers)) :
            get_available_providers(providers)[j] = factory_call.name
       /\ \A id \in 1..MaxCreated :
            create_model(providers, factory_call.name, TRUE, id)
              = Returned([cls |-> factory_call.model_class,
                          provider |-> ClassProvider(factory_call.model_class), id |-> id])
       /\ \A n \in ProviderNames \ {factory_call.name} :
            DictGet(providers, n, None) = DictGet(factory_call.providers_before, n, None)
  /\ (Registered /\ factory_call.model_class \notin BackendClasses) =>
       /\ factory_call.ret.raised
       /\ factory_call.ret.val.cls = "ValueError"
       /\ providers = factory_call.providers_before
  /\ (factory_call.op = "create_model" /\ ~factory_call.ret.raised) =>
       factory_call.ret.val.cls
         = DictGet(factory_call.providers_before, factory_call.name, None)

C18_Witness ==
  /\ Registered /\ factory_call.name = "mock"
  /\ factory_call.model_class = "LocalHuggingFaceModel"
  /\ DictGet(factory_call.providers_before, "mock", None) = "MockAIProvider"
  /\ DictGet(providers, "mock", None) = "LocalHuggingFaceModel"

\* a process_message or process_thread_message call naming the provider starts
CallStartsWith(name) ==
  \/ ProcessStart(1, "U1", "fyi", name, TRUE)
  \/ ThreadStart(1, "U1", "fyi", <<>>, name, TRUE)

C19_SwitchStep ==
  \A name \in RegisterNames :
    (DictHas(providers, name) /\ CallStartsWith(name)) =>
      /\ calls'[1].outcome # "switch_failed"
      /\ current_model'.cls = DictGet(providers, name, None)
      /\ get_current_model_info(current_model').provider
           = ClassProvider(DictGet(providers, name, None))

\* C19: once register_provider has added a backend under a name, a process
\* or process_thread call with provider = name makes an instance of the
\* registered class the active backend, and get_current_model_info reports it.
C19_RegisteredBackendUsable == [][C19_SwitchStep]_vars

\* C20: before any register_provider call, get_available_providers has
\* openai, anthropic, local, huggingface, gemini and google.
C20_InitialProviders ==
  (factory_call.op = "get_available_providers"
   /\ factory_call.providers_before = InitialProviders) =>
    \A n \in {"openai", "anthropic", "local", "huggingface", "gemini", "google"} :
      \E j \in 1..Len(factory_call.ret.val) : factory_call.ret.val[j] = n

(***************************************************************************)
(* AIAgent.health_check: suspended in the backend's health_check.          *)
(***************************************************************************)
\* outcomes of the backend's health_check
HealthOutcomes ==
  {[kind |-> "ok", content |-> TRUE], [kind |-> "ok", content |-> FALSE]}
  \cup {[kind |-> "raise", exc |-> e, msg |-> "connection refused"] : e \in ExceptionClasses}

\* the exception classes of health_check's except clause
HealthCaught == {"ConnectionError", "TimeoutError", "ValueError"}

\* health_check up to the backend call: whether the backend is called, and the
\* record returned at once when it is not
health_check_start(model) ==
  [calls_backend |-> model # NoModel,
   ret |-> [status |-> "error", message |-> "No model loaded"]]

\* the outcome of the backend call as kept in the call frame
HealthOutcomeName(outcome) ==
  IF outcome.kind = "raise" THEN outcome.exc
  ELSE IF outcome.content THEN "true" ELSE "false"

\* health_check from the return of the backend call, model being
\* self.current_model at that moment
health_check_result_Reraises(model, outcome) ==
  IF outcome.kind = "ok"
  THEN Returned([status |-> IF outcome.content THEN "healthy" ELSE "unhealthy",
                 provider |-> model.provider, model |-> ModelName(model.cls)])
  ELSE Raised(outcome.exc)

health_check_result(model, outcome) ==
  IF outcome.kind = "ok"
  THEN Returned([status |-> IF outcome.content THEN "healthy" ELSE "unhealthy",
                 provider |-> model.provider, model |-> ModelName(model.cls)])
  ELSE IF outcome.exc \in HealthCaught
  THEN Returned([status |-> "error", message |-> outcome.msg,
                 provider |-> model.provider, model |-> ModelName(model.cls)])
  ELSE Raised(outcome.exc)

HealthStart(r) ==
  /\ ~InFlight(r)
  /\ ncalls' = ncalls + 1
  /\ last' = NoStep
  /\ calls' = [calls EXCEPT ![r] =
       IF ~health_check_start(current_model).calls_backend
       THEN [NewCall("health_check", None, "", <<>>)
               EXCEPT !.pc = "returned", !.outcome = "no_model",
                      !.ret = Returned(health_check_start(current_model).ret)]
       ELSE [NewCall("health_check", None, "", <<>>)
               EXCEPT !.pc = "await_health", !.model = current_model]]
  /\ UNCHANGED <<conversation_history, current_model, providers, created, cat, factory_call>>

HealthReturn(r, outcome) ==
  /\ calls[r].pc = "await_health"
  /\ last' = NoStep
  /\ calls' = [calls EXCEPT ![r] =
       [@ EXCEPT !.pc = "returned", !.outcome = HealthOutcomeName(outcome),
                 !.ret = health_check_result(current_model, outcome)]]
  /\ UNCHANGED <<conversation_history, current_model, providers, created, ncalls, cat,
                 factory_call>>

(***************************************************************************)
(* SpecConc: two requests at a time, none naming a provider.  The          *)
(* coroutines of the two call slots interleave at their await points;      *)
(* clear_conversation runs at any point between two steps.                 *)
(***************************************************************************)
\* calls started in one behaviour of SpecConc
MaxConcCalls == 2

ConcMessages == {"error in prod"}

ConcProviderArgs ==
  {[provider |-> None, constructs |-> TRUE], [provider |-> "gemini", constructs |-> TRUE],
   [provider |-> "huggingface", constructs |-> TRUE],
   [provider |-> "gemini", constructs |-> FALSE],
   [provider |-> "nonexistent", constructs |-> TRUE]}

ConcClassifyOutcomes ==
  {[kind |-> "ok", content |-> "technical_issue"], [kind |-> "raise", exc |-> "TimeoutError"]}

\* the slot a new request takes: the first one with no suspended coroutine
FreeSlot(r) == ~InFlight(r) /\ \A q \in Reqs : q < r => InFlight(q)

NextConc ==
  \/ \E r \in Reqs, u \in Users, m \in ConcMessages :
       ncalls < MaxConcCalls /\ FreeSlot(r) /\ ProcessStart(r, u, m, None, TRUE)
  \/ \E r \in Reqs, o \in GenerateOutcomes : ProcessReturn(r, o)
  \/ \E r \in Reqs, u \in Users, m \in ConcMessages :
       ncalls < MaxConcCalls /\ FreeSlot(r) /\ ThreadStart(r, u, m, <<>>, None, TRUE)
  \/ \E r \in Reqs, o \in ConcClassifyOutcomes : ThreadCategorized(r, o)
  \/ \E r \in Reqs, o \in GenerateOutcomes : ThreadReturn(r, o)
  \/ \E u \in Users : Clear(u)

SpecConc ==
  /\ Init /\ [][NextConc]_vars
  /\ \A r \in Reqs :
       /\ WF_vars(\E o \in GenerateOutcomes : ProcessReturn(r, o))
       /\ WF_vars(\E o \in ConcClassifyOutcomes : ThreadCategorized(r, o))
       /\ WF_vars(\E o \in GenerateOutcomes : ThreadReturn(r, o))

(***************************************************************************)
(* SpecSwitch: two requests at a time, each naming a provider or none.     *)
(***************************************************************************)
\* calls started in one behaviour of SpecSwitch
MaxSwitchCalls == 2

NextSwitch ==
  \/ \E r \in Reqs, u \in Users, m \in ConcMessages, p \in ConcProviderArgs :
       ncalls < MaxSwitchCalls /\ FreeSlot(r)
       /\ ProcessStart(r, u, m, p.provider, p.constructs)
  \/ \E r \in Reqs, o \in GenerateOutcomes : ProcessReturn(r, o)
  \/ \E r \in Reqs, u \in Users, m \in ConcMessages, p \in ConcProviderArgs :
       ncalls < MaxSwitchCalls /\ FreeSlot(r)
       /\ ThreadStart(r, u, m, <<>>, p.provider, p.constructs)
  \/ \E r \in Reqs, o \in ConcClassifyOutcomes : ThreadCategorized(r, o)
  \/ \E r \in Reqs, o \in GenerateOutcomes : ThreadReturn(r, o)

SpecSwitch ==
  /\ Init /\ [][NextSwitch]_vars
  /\ \A r \in Reqs :
       /\ WF_vars(\E o \in GenerateOutcomes : ProcessReturn(r, o))
       /\ WF_vars(\E o \in ConcClassifyOutcomes : ThreadCategorized(r, o))
       /\ WF_vars(\E o \in GenerateOutcomes : ThreadReturn(r, o))

(***************************************************************************)
(* SpecHealth: health_check calls next to process calls that may switch    *)
(* the provider while a health check is suspended.                         *)
(***************************************************************************)
\* calls started in one behaviour of SpecHealth
MaxHealthCalls == 3

NextHealth ==
  \/ \E r \in Reqs : ncalls < MaxHealthCalls /\ FreeSlot(r) /\ HealthStart(r)
  \/ \E r \in Reqs, o \in HealthOutcomes : HealthReturn(r, o)
  \/ \E r \in Reqs, p \in ConcProviderArgs :
       ncalls < MaxHealthCalls /\ FreeSlot(r)
       /\ ProcessStart(r, "U1", "fyi", p.provider, p.constructs)
  \/ \E r \in Reqs, o \in GenerateOutcomes : ProcessReturn(r, o)

SpecHealth ==
  /\ Init /\ [][NextHealth]_vars
  /\ \A r \in Reqs :
       /\ WF_vars(\E o \in HealthOutcomes : HealthReturn(r, o))
       /\ WF_vars(\E o \in GenerateOutcomes : ProcessReturn(r, o))

HealthReturned(r) == calls[r].op = "health_check" /\ calls[r].pc = "returned"

TransportFailures == {"ConnectionError", "TimeoutError"}

C21_StatusRecord ==
  /\ \A r \in Reqs :
       HealthReturned(r) =>
         LET outcome == calls[r].outcome
             ret == calls[r].ret
         IN  /\ outcome \in {"true", "false"} =>
                  /\ ~ret.raised
                  /\ DOMAIN ret.val = {"status", "provider", "model"}
                  /\ ret.val.status = IF outcome = "true" THEN "healthy" ELSE "unhealthy"
             /\ outcome \in TransportFailures =>
                  /\ ~ret.raised
                  /\ ret.val.status = "error"
                  /\ \E o \in HealthOutcomes :
                       o.kind = "raise" /\ o.exc = outcome /\ ret.val.message = o.msg
  /\ ~health_check_start(NoModel).calls_backend
  /\ health_check_start(NoModel).ret.status = "error"

\* a step of a health_check call leaves the active backend and the histories
C21_HealthStep ==
  \A r \in Reqs :
    (calls'[r] # calls[r] /\ calls'[r].op = "health_check") =>
      UNCHANGED <<current_model, conversation_history, providers, created>>

\* C21: AIAgent.health_check returns status healthy with provider and model
\* when the backend's health_check returns true, unhealthy when it returns
\* false, and a record with status error and the message when it raises a
\* transport failure; with no backend it returns status error without a
\* backend call.  It changes neither the active backend nor any history.
C21_HealthCheckRecord == []C21_StatusRecord /\ [][C21_HealthStep]_vars

\* a health check that raised TimeoutError while a request switched the provider
C21_Witness ==
  \E r \in Reqs :
    /\ HealthReturned(r) /\ calls[r].outcome = "TimeoutError"
    /\ calls[r].ret.val.status = "error"
    /\ calls[r].model # current_model

\* the call in slot r has returned after its model call failed
ModelFailed(r, op) ==
  calls[r].pc = "returned" /\ calls[r].op = op /\ calls[r].outcome = "generate_failed"

\* C22: the text process returns when its model call fails differs from the
\* text process_thread returns when its model call fails.
C22_DistinctApologies ==
  \A r, q \in Reqs :
    (ModelFailed(r, "process") /\ ModelFailed(q, "process_thread")) =>
      calls[r].ret.val # calls[q].ret.val

(***************************************************************************)
(* SpecPrompt: calls of one user, one after the other, the thread calls    *)
(* with thread contexts of several authors.                                *)
(***************************************************************************)
PromptEntries == {Entry(u, t, 1) : u \in Users, t \in {"error in prod", "fyi"}}

\* thread contexts of up to two entries
PromptContexts ==
  {<<>>} \cup {<<e>> : e \in PromptEntries}
  \cup {<<e1, e2>> : e1 \in PromptEntries, e2 \in PromptEntries}

NextPrompt ==
  \/ ncalls < MaxCalls /\ ProcessStart(1, "U1", "fyi", None, TRUE)
  \/ \E o \in GenerateOutcomes : ProcessReturn(1, o)
  \/ \E m \in PromptMessages, t \in PromptContexts :
       ncalls < MaxCalls /\ ThreadStart(1, "U1", m, t, None, TRUE)
  \/ \E o \in ConcClassifyOutcomes : ThreadCategorized(1, o)
  \/ \E o \in GenerateOutcomes : ThreadReturn(1, o)

SpecPrompt == Init /\ [][NextPrompt]_vars

\* the call in slot r is a process_thread call that has called the model
ThreadModelCalled(r) == calls[r].op = "process_thread" /\ "CALL_MODEL" \in Stages(r)

\* the current text is not the text of the last thread-context entry
NotInContext(message, thread_context) ==
  thread_context = <<>> \/ thread_context[Len(thread_context)].text # Strip(message)

MaxHistoryCalls == 7

HistoryContexts == {<<>>, <<Entry("U2", "fyi", 1), Entry("U1", "error bug", 2)>>}

HistoryContents == {"Test response", "Restart the pod"}

NextHistory ==
  \/ ncalls < MaxHistoryCalls /\ ProcessStart(1, "U1", "fyi", None, TRUE)
  \/ ProcessReturn(1, [kind |-> "ok", content |-> "Test response"])
  \/ \E u \in Users, t \in HistoryContexts :
       /\ ncalls < MaxHistoryCalls
       /\ ThreadStart(1, u, " error in prod\n", t, None, TRUE)
  \/ ThreadCategorized(1, [kind |-> "ok", content |-> "technical_issue"])
  \/ \E c \in HistoryContents : ThreadReturn(1, [kind |-> "ok", content |-> c])

SpecHistory == Init /\ [][NextHistory]_vars

\* the last n entries of lst, all of them when there are fewer
LastEntries(lst, n) ==
  IF Len(lst) > n THEN SubSeq(lst, Len(lst) - n + 1, Len(lst)) ELSE lst

\* slot r goes from the model call of the technical path to a successful return
ThreadSucceeds(r) ==
  /\ calls[r].pc = "await_thread_generate"
  /\ calls'[r].pc = "returned"
  /\ calls'[r].outcome = "ok"

C24_ThreadSuccessStep ==
  \A r \in Reqs :
    ThreadSucceeds(r) =>
      LET u == calls[r].user_id
          old == HistoryOf(u)
      IN  /\ u \in DOMAIN conversation_history'
          /\ \E c \in HistoryContents :
               /\ conversation_history'[u] =
                    LastEntries(old \o <<AIMessage("user", calls[r].message, NoMetadata),
                                         AIMessage("assistant", c, NoMetadata)>>, 10)
               /\ calls'[r].ret = Returned(c \o CategoryFooter(calls[r].category))
          /\ DOMAIN conversation_history' = DOMAIN conversation_history \cup {u}
          /\ \A v \in DOMAIN conversation_history \ {u} :
               conversation_history'[v] = conversation_history[v]

\* C24: when generate succeeds on the technical path of process_thread, the
\* caller's history (created if absent) becomes its old entries followed by
\* the pair (user: current text, assistant: model content), cut to the last
\* 10; no other history changes, so no thread-context entry is written, and
\* the call returns the model content followed by the category footer.
C24_ThreadAppendsPair == [][C24_ThreadSuccessStep]_vars

\* a thread call with a thread context returned on a history that was past
\* the limit, and left the last 10 entries ending in its pair
C24_Witness ==
  /\ calls[1].op = "process_thread"
  /\ calls[1].pc = "returned"
  /\ calls[1].outcome = "ok"
  /\ calls[1].thread_context # <<>>
  /\ "U1" \in DOMAIN calls[1].hist_before
  /\ Len(calls[1].hist_before["U1"]) = 11
  /\ Len(HistoryOf("U1")) = 10
  /\ HistoryOf("U1")[9].content = calls[1].message
  /\ calls[1].ret.val = HistoryOf("U1")[10].content \o CategoryFooter(calls[1].category)

(***************************************************************************)
(* Provider switches under interleaved requests (SpecSwitch).              *)
(***************************************************************************)
\* a step in which slot r starts a process or process_thread call with argument p
CallStarts(r, p) ==
  \E u \in Users, m \in ConcMessages :
    \/ ProcessStart(r, u, m, p.provider, p.constructs)
    \/ ThreadStart(r, u, m, <<>>, p.provider, p.constructs)

\* constructing the backend p names fails: no model configuration, unknown
\* to the factory, or the constructor raises
ConstructionFails(p) ==
  \/ p.provider \notin ConfiguredProviders
  \/ ~DictHas(providers, p.provider)
  \/ ~p.constructs

C25_FailedSwitchStep ==
  \A r \in Reqs, p \in ConcProviderArgs :
    (CallStarts(r, p) /\ p.provider # None /\ p.provider # current_model.provider
       /\ ConstructionFails(p)) =>
      /\ calls'[r].pc = "returned"
      /\ calls'[r].ret.raised
      /\ calls'[r].ret.val \in ExceptionClasses
      /\ calls'[r].sent = <<>>
      /\ "CALL_MODEL" \notin {calls'[r].trace[i] : i \in DOMAIN calls'[r].trace}
      /\ current_model' = current_model
      /\ conversation_history' = conversation_history
      /\ created' = created

\* C25: a process or process_thread call that names a provider other than
\* the active one whose backend cannot be constructed ends with the
\* construction error raised to its caller, makes no model call, and
\* leaves the active backend and every history as they were.
C25_FailedSwitchPropagates == [][C25_FailedSwitchStep]_vars

\* a call ended on a failed switch while another request, which had
\* switched the backend, was suspended in its model call
C25_Witness ==
  \E r \in Reqs, q \in Reqs :
    /\ calls[r].outcome = "switch_failed"
    /\ calls[r].ret.raised
    /\ calls[q].pc = "await_generate"
    /\ current_model.provider = "gemini"
    /\ conversation_history # EmptyDict
    /\ conversation_history = calls[r].hist_before

(***************************************************************************)
(* clear_conversation while a process call of the same user is suspended.  *)
(***************************************************************************)
\* generate_response of the process call in slot r returns content; the key of
\* the call's user was deleted during the call and not created again
ReturnsAfterClear(r, content) ==
  /\ calls[r].op = "process"
  /\ calls[r].user_id \notin DOMAIN conversation_history
  /\ ProcessReturn(r, [kind |-> "ok", content |-> content])

C26_ReturnStep ==
  \A r \in Reqs, o \in GenerateOutcomes :
    (o.kind = "ok" /\ ReturnsAfterClear(r, o.content)) =>
      /\ calls'[r].pc = "returned"
      /\ calls'[r].ret = Returned(ProcessApology)
      /\ calls'[r].ret.val # o.content
      /\ calls'[r].user_id \notin DOMAIN conversation_history'

\* C26: when clear(u) has run while process(u, text) was suspended in
\* generate and no other call has created u's history again, a successful
\* return of generate makes process return the apology string, not the
\* model's content, and u still has no history key afterwards.
C26_ClearDuringProcess == [][C26_ReturnStep]_vars

\* generate came back with content, the call returned the apology, and the
\* user has no key
C26_Witness ==
  \E r \in Reqs :
    /\ calls[r].op = "process"
    /\ calls[r].pc = "returned"
    /\ calls[r].response = "Test response"
    /\ calls[r].ret = Returned(ProcessApology)
    /\ calls[r].user_id \notin DOMAIN conversation_history
    /\ \A q \in Reqs \ {r} : calls[q].user_id # calls[r].user_id

(***************************************************************************)
(* The backend of a process_thread call across its two model calls.        *)
(***************************************************************************)
\* slot r goes from the classification call to the model call of the technical path
EntersModelCall(r) ==
  /\ calls[r].pc = "await_categorize"
  /\ calls'[r].pc = "await_thread_generate"

C27_SameBackendStep ==
  \A r \in Reqs : EntersModelCall(r) => calls'[r].model = calls[r].model

\* C27: the backend that receives the final generate call of a
\* process_thread call is the backend that was active right after the
\* call's own provider switch and received its classification call,
\* whatever other requests do in between.
C27_BackendStableInCall == [][C27_SameBackendStep]_vars

(***************************************************************************)
(* Isolation of the users' histories under interleaved requests.           *)
(***************************************************************************)
\* the step adds, removes or changes the history of user v
HistoryChanges(v) ==
  \/ (v \in DOMAIN conversation_history) # (v \in DOMAIN conversation_history')
  \/ /\ v \in DOMAIN conversation_history
     /\ v \in DOMAIN conversation_history'
     /\ conversation_history'[v] # conversation_history[v]

\* the step is a step of a process, process_thread or clear call for user v
StepOfUser(v) ==
  \/ \E r \in Reqs : calls'[r] # calls[r] /\ calls'[r].user_id = v
  \/ last'.op = "clear" /\ last'.user_id = v

\* slot r suspends in the model call of process_message
ProcessSends(r) == calls[r].pc # "await_generate" /\ calls'[r].pc = "await_generate"

C28_IsolationStep ==
  /\ \A v \in Users : HistoryChanges(v) => StepOfUser(v)
  /\ \A r \in Reqs :
       ProcessSends(r) =>
         /\ calls'[r].user_id \in DOMAIN conversation_history'
         /\ calls'[r].sent = conversation_history'[calls'[r].user_id]

\* C28: under any interleaving, a step of a process, process_thread or
\* clear call for user u changes the history of no other user, and the
\* messages process(u, ...) sends to the model are u's history.
C28_PerUserIsolation == [][C28_IsolationStep]_vars

\* a process call of one user is suspended with that user's history as its
\* messages while the other user has a history of another length
C28_Witness ==
  \E r \in Reqs, v \in Users :
    /\ calls[r].pc = "await_generate"
    /\ calls[r].user_id # v
    /\ v \in DOMAIN conversation_history
    /\ calls[r].user_id \in DOMAIN conversation_history
    /\ calls[r].sent = conversation_history[calls[r].user_id]
    /\ Len(conversation_history[v]) > Len(calls[r].sent)

(***************************************************************************)
(* Repeated requests naming the same provider.                             *)
(***************************************************************************)
\* the registered provider names among the arguments of SpecSwitch
RegisteredArgs == {p \in ConcProviderArgs : DictHas(providers, p.provider) /\ p.constructs}

\* the active backend is an instance of the class registered under name
ActiveIs(name) == current_model.cls = DictGet(providers, name, None)

C29_RepeatStep ==
  \A r \in Reqs, p \in RegisteredArgs :
    CallStarts(r, p) =>
      /\ get_current_model_info(current_model').provider = p.provider
      /\ ActiveIs(p.provider) => (current_model' = current_model /\ created' = created)

\* C29: for every registered provider name p, a request naming p leaves
\* current_model_info().provider equal to p, and a request naming p while
\* the active backend is the one built for p constructs no new backend.
C29_SwitchIdempotent == [][C29_RepeatStep]_vars

(***************************************************************************)
(* The active backend as a value of the agent.                             *)
(***************************************************************************)
NoProvider == [provider |-> None, constructs |-> TRUE]

\* slot r suspends in a model call: generate of process_message, the
\* classification call or generate of the technical path
EntersAwait(r) == calls'[r] # calls[r] /\ InFlight(r)'

C30_AgentWideStep ==
  /\ \A r \in Reqs :
       CallStarts(r, NoProvider) =>
         /\ calls'[r].outcome # "switch_failed"
         /\ current_model' = current_model
  /\ \A r \in Reqs : EntersAwait(r) => calls'[r].model = current_model'
  /\ current_model' # current_model =>
       \E r \in Reqs, p \in ConcProviderArgs :
         /\ p.provider # None
         /\ p.provider # current_model.provider
         /\ CallStarts(r, p)
         /\ current_model'.cls = DictGet(providers, p.provider, None)

\* C30: the active backend is one value of the agent: a request that passes
\* no provider leaves it as it is, every model call of every user goes to
\* it, and it changes only when a request names a provider other than the
\* active one, to the backend registered under that name.
C30_AgentWideBackend == [][C30_AgentWideStep]_vars

\* the first call, of U1, built the second backend, the local one; a call of
\* U2 is suspended in generate on that same object (naming a provider
\* again would have built a third)
C30_Witness ==
  \E r \in Reqs, q \in Reqs :
    /\ calls[q].user_id = "U1"
    /\ calls[q].hist_before = EmptyDict
    /\ calls[q].model.id = 2
    /\ calls[r].user_id = "U2"
    /\ calls[r].pc = "await_generate"
    /\ calls[r].model = current_model
    /\ current_model.cls = "LocalHuggingFaceModel"
    /\ current_model.id = 2
    /\ created = 2
====
